---- MODULE Spec2Model ----
(***************************************************************************)
(* Model of MultiTenantKnex (multi-tenant-knex): the tenant connection      *)
(* registry, the migration / seed orchestration, the ORM binder and the     *)
(* active-context slot, together with the express middlewares that drive    *)
(* them.  Both schema layouts of the class are modelled: the single-config  *)
(* class (one knex config, one models directory) and the split class        *)
(* (system / tenant configs and models directories).                        *)
(*                                                                         *)
(* Every async function is cut at its awaits: one action is the code that   *)
(* runs between two awaits.  The database server, the node module cache     *)
(* and objection's Model.knex() are modelled by what they do.               *)
(***************************************************************************)
EXTENDS Integers, Sequences, FiniteSets, TLC

(* ------------------------------------------------------------------ *)
(* Bounds of the model                                                  *)
(* ------------------------------------------------------------------ *)
\* number of top-level calls the environment makes in one behaviour
MaxCalls == 3
\* the same, while two calls are kept in flight
MaxConcurrentCalls == 2
\* number of failures the environment injects (a failing migration or seed
\* unit, a failing CREATE DATABASE) in one behaviour
MaxFaults == 1

(* ------------------------------------------------------------------ *)
(* Inputs                                                               *)
(* ------------------------------------------------------------------ *)
\* call slots: calls that can be in flight at the same time
Procs == {1, 2}

\* tenant names handed to createTenant, as sequences of characters
Names == { <<"A", "c">>, <<"a", "C">>, <<"b", "x">> }

\* String.prototype.toLowerCase on the characters the names are made of
LowerChar(c) ==
  CASE c = "A" -> "a"
    [] c = "C" -> "c"
    [] OTHER -> c

toLowerCase(s) == [i \in 1..Len(s) |-> LowerChar(s[i])]

Subdomains == { toLowerCase(n) : n \in Names }

\* `tenant_${subdomain}`
TenantDbName(subdomain) == <<"tenant_">> \o subdomain

SystemDb == <<"system">>

DBs == {SystemDb} \cup { TenantDbName(s) : s \in Subdomains }

\* the migration files of knex/migrations, in their (timestamp) order
Units == <<1, 2, 3>>
\* the migration unit that creates the tenants table
\* (20240527181456_tenant_table.ts)
TenantsTableUnit == 2
\* the seed files of knex/seeds, in readdir order
Seeds == <<1, 2>>

\* the two layouts of the class
Layouts == {"single", "split"}

\* models directories (modelsPath; systemModelsPath / tenantModelsPath)
SystemModelsPath(l) == IF l = "single" THEN "models" ELSE "models/system"
TenantModelsPath(l) == IF l = "single" THEN "models" ELSE "models/tenant"

\* fs.readdirSync(dirPath) of a models directory
DirFiles(path) ==
  CASE path = "models" ->
         {"user.model.ts", "tenant.model.ts", ".hidden.model.ts",
          "user.model.test.ts", "tenantConfig.ts"}
    [] path = "models/system" ->
         {"user.model.ts", "tenant.model.ts", "user.model.test.ts"}
    [] path = "models/tenant" ->
         {"user.model.ts", "task.model.ts", "index.ts"}
    [] OTHER -> {}

\* what _getModelFiles' filter reads off a file name
FileFacts(file) ==
  CASE file = "user.model.ts"      -> [dot0 |-> FALSE, model |-> TRUE,  test |-> FALSE]
    [] file = "tenant.model.ts"    -> [dot0 |-> FALSE, model |-> TRUE,  test |-> FALSE]
    [] file = "task.model.ts"      -> [dot0 |-> FALSE, model |-> TRUE,  test |-> FALSE]
    [] file = ".hidden.model.ts"   -> [dot0 |-> TRUE,  model |-> TRUE,  test |-> FALSE]
    [] file = "user.model.test.ts" -> [dot0 |-> FALSE, model |-> FALSE, test |-> TRUE]
    [] OTHER                       -> [dot0 |-> FALSE, model |-> FALSE, test |-> FALSE]

\* _getModelFiles: not a dot file, ends in ".model.ts", no ".test.ts" in it
getModelFiles(path) ==
  { f \in DirFiles(path) :
      /\ ~FileFacts(f).dot0
      /\ FileFacts(f).model
      /\ ~FileFacts(f).test }

\* the model class a model file exports
ModelName(file) ==
  CASE file = "user.model.ts"   -> "User"
    [] file = "tenant.model.ts" -> "Tenant"
    [] file = "task.model.ts"   -> "Task"
    [] OTHER -> "?"

\* A model class is the export of a module; node caches modules by path, so
\* every import of the same file yields the same class object.
Class(path, file) == <<path, ModelName(file)>>

AllPaths == {"models", "models/system", "models/tenant"}

Classes == UNION { { Class(pa, f) : f \in getModelFiles(pa) } : pa \in AllPaths }

(* ------------------------------------------------------------------ *)
(* Handles and bindings                                                 *)
(* ------------------------------------------------------------------ *)
\* this.mainKnex / this.systemKnex
SysHandle == 0
\* "no handle": an absent key of tenantConnections, an unbound class
NoHandle == -1

\* An ORM object: `id` is the identity of the object, `path` the models
\* directory its keys come from, `conn` the connection it was built for.
\* The models under its keys are the classes Class(path, file).
NoORM == [id |-> -1, path |-> "none", conn |-> NoHandle]
\* the {} the constructor stores in mainORM and currentORM
EmptyORM == [id |-> 0, path |-> "none", conn |-> NoHandle]

OrmModels(orm) == { Class(orm.path, f) : f \in getModelFiles(orm.path) }

(* ------------------------------------------------------------------ *)
(* State                                                                *)
(* ------------------------------------------------------------------ *)
VARIABLES
  layout,             \* which of the two classes runs: "single" or "split"
  conc,               \* how many calls the environment keeps in flight
  \* --- the database server ---
  dbExists,           \* the tenant databases that exist
  ledger,             \* per database: the applied-ledger (knex_migrations)
  rows,               \* per database: the subdomains in its tenants table
  seedRuns,           \* per database: per seed unit, how often it has run
  \* --- knex ---
  hDb,                \* per tenant handle ever opened: its database name
  destroyed,          \* the handles destroy() was called on
  \* --- the MultiTenantKnex object ---
  tenantConnections,  \* this.tenantConnections: its keys in insertion
                      \* order (the order of for-in), each with its handle
  tenantORMs,         \* this.tenantORMs
  mainORM,            \* this.mainORM
  currentORM,         \* this.currentORM
  \* --- module state ---
  classKnex,          \* per model class: the knex Model.knex(k) last set
  nextOrm,            \* identity of the next ORM object _importModels makes
  \* --- calls in flight ---
  proc,               \* per call slot: the call and its local variables
  calls,              \* calls the environment may still start
  faults              \* failures injected so far

dbVars   == <<dbExists, ledger, rows, seedRuns>>
regVars  == <<hDb, destroyed, tenantConnections>>
ormVars  == <<tenantORMs, mainORM, currentORM>>
vars == <<layout, conc, dbExists, ledger, rows, seedRuns, hDb, destroyed,
          tenantConnections, tenantORMs, mainORM, currentORM, classKnex,
          nextOrm, proc, calls, faults>>

\* new Error(message): the message, and the value interpolated into it
Error(msg, arg) == [msg |-> msg, arg |-> arg]
NoError == Error("none", <<>>)

\* a value returned: a TenantRecord, or undefined
Undefined ==
  [ name |-> <<>>, status |-> "undefined", subdomain |-> <<>>, dbName |-> <<>> ]

\* what a call found when it started: the handle and the binding of its
\* tenant, the number of handles opened, whether its tenant had a record,
\* whether its database existed, the entries of tenantConnections, how
\* often each seed unit had run on each database; for a createTenant, the
\* number of calls that were left to start and, when a createTenant of the
\* same subdomain was in flight, that number of that call (else 0)
NoPre ==
  [ conn |-> NoHandle, orm |-> NoORM, opened |-> 0, had |-> FALSE,
    db |-> FALSE, conns |-> <<>>, at |-> 0, co |-> 0,
    seeds |-> [d \in DBs |-> [s \in 1..Len(Seeds) |-> 0]] ]

\* a request: the middleware mounted on its route, its authorization
\* header, whether it has an x-tenant-id header, and the value
\* req.headers["x-tenant-id"] reads (<<>>: undefined or the empty string,
\* the two values of it that are falsy)
NoAuth == [scheme |-> "none", valid |-> FALSE, tenantId |-> <<>>]
NoReq == [mw |-> "none", auth |-> NoAuth, has |-> FALSE, hdr |-> <<>>]

\* a call slot with no call in it
Idle ==
  [ op    |-> "idle",     \* the function called
    pc    |-> "idle",     \* the await the call is suspended at
    sub   |-> <<>>,       \* subdomain
    conn  |-> NoHandle,   \* tenantConnection / connection
    plan  |-> <<>>,       \* pendingMigrations / seeders still to run
    orm   |-> NoORM,      \* orm of _importModels
    todo  |-> {},         \* model files whose import() has not resolved
    ts    |-> <<>>,       \* tenants of getDbTenants
    conns |-> <<>>,       \* per tenant of ts: its tenantConnection
    fns   |-> <<>>,       \* migrationFunctions / seedsFunctions
    lst   |-> {},         \* tenants of ts whose promise has resolved
    k     |-> 0,          \* index of the for loop over the functions
    res   |-> "none",     \* the response of a middleware
    req   |-> NoReq,      \* the request a middleware was called with
    out   |-> <<>>,       \* history: the responses sent and next() calls
    err   |-> NoError,    \* the error the call threw
    ret   |-> Undefined,  \* the value the call returned
    read  |-> NoORM,      \* what the handler got from getCurrentORM
    bad   |-> {},         \* history: tenants a failure was caught for
    led0  |-> <<>>,       \* history: per plan, the ledger it was computed on
    unit  |-> 0,          \* history: the unit whose failure ended the call
    failU |-> <<>>,       \* history: per plan, the unit that failed (or 0)
    pre   |-> NoPre,      \* history: the state the call found
    ran   |-> <<>>        \* history: <<handle, kind, unit>> of the units
                          \* started: kind "up" or "seed", or what the
                          \* driver refused the unit for
  ]

HandleDb(h) == IF h = SysHandle THEN SystemDb ELSE hDb[h]

\* a query through handle h can run: the pool was not destroyed and the
\* database exists
Usable(h) ==
  /\ h # NoHandle
  /\ h \notin destroyed
  /\ (HandleDb(h) = SystemDb \/ HandleDb(h) \in dbExists)

\* the handles ever opened for tenants
Opened == 1..Len(hDb)

\* a unit started on handle h, which is not usable: the pool rejects the
\* query because it was destroyed, or the server because the database does
\* not exist
refused(r, h, u) ==
  [r EXCEPT !.ran = Append(@, <<h, IF h \in destroyed THEN "released"
                                  ELSE "no database", u>>)]

(* ------------------------------------------------------------------ *)
(* Init: the state the constructor leaves, against a database server    *)
(* that holds the tenants given                                         *)
(* ------------------------------------------------------------------ *)
\* constructor: tenantConnections = {}, tenantORMs = {}, mainORM = {},
\* mainKnex = knex(config), currentORM = mainORM
Constructed ==
  /\ hDb = <<>>
  /\ destroyed = {}
  /\ tenantConnections = <<>>
  /\ tenantORMs = [s \in Subdomains |-> NoORM]
  /\ mainORM = EmptyORM
  /\ currentORM = EmptyORM
  /\ classKnex = [c \in Classes |-> NoHandle]
  /\ nextOrm = 1
  /\ proc = [p \in Procs |-> Idle]
  /\ faults = 0

\* the row createTenant inserts
TenantRecord(subdomain) ==
  [ name |-> subdomain, status |-> "active", subdomain |-> subdomain,
    dbName |-> TenantDbName(subdomain) ]

\* a server with no tenant yet: the system database is migrated
EmptyServer ==
  /\ dbExists = {}
  /\ ledger = [d \in DBs |-> IF d = SystemDb THEN Units ELSE <<>>]
  /\ rows = [d \in DBs |-> <<>>]
  /\ seedRuns = [d \in DBs |-> [s \in 1..Len(Seeds) |-> 0]]

\* the tenants of a server left by earlier runs of the program
Fleet == << [i \in 1..2 |-> LowerChar(<<"A", "c">>[i])], <<"b", "x">> >>

\* a server with a fleet: the first tenant is current, or its record is
\* there without its database (a createTenant that failed at CREATE
\* DATABASE); the second tenant is one unit into its migrations
FleetServer(whole) ==
  /\ dbExists = { TenantDbName(Fleet[i]) : i \in (IF whole THEN {1, 2} ELSE {2}) }
  /\ ledger = [d \in DBs |->
                 IF d = SystemDb \/ (whole /\ d = TenantDbName(Fleet[1])) THEN Units
                 ELSE IF d = TenantDbName(Fleet[2]) THEN SubSeq(Units, 1, 1)
                 ELSE <<>>]
  /\ rows = [d \in DBs |->
               IF d = SystemDb THEN [i \in 1..2 |-> TenantRecord(Fleet[i])]
               ELSE <<>>]
  /\ seedRuns = [d \in DBs |->
                   [s \in 1..Len(Seeds) |->
                      IF d # SystemDb /\ d \in dbExists THEN 1 ELSE 0]]

\* a server whose fleet a new migration file has left behind: every tenant
\* lacks the last unit
LaggingFleet ==
  /\ dbExists = { TenantDbName(Fleet[i]) : i \in {1, 2} }
  /\ ledger = [d \in DBs |->
                 IF d = SystemDb THEN Units
                 ELSE IF d \in { TenantDbName(Fleet[i]) : i \in {1, 2} }
                 THEN SubSeq(Units, 1, Len(Units) - 1)
                 ELSE <<>>]
  /\ rows = [d \in DBs |->
               IF d = SystemDb THEN [i \in 1..2 |-> TenantRecord(Fleet[i])]
               ELSE <<>>]
  /\ seedRuns = [d \in DBs |->
                   [s \in 1..Len(Seeds) |->
                      IF d # SystemDb /\ d \in dbExists THEN 1 ELSE 0]]

\* one call at a time, against a server with no tenant or with a fleet
Init ==
  /\ layout \in Layouts
  /\ conc = 1
  /\ calls = MaxCalls
  /\ EmptyServer \/ FleetServer(TRUE) \/ FleetServer(FALSE)
  /\ Constructed

\* The state the start-up of the README's tenantConfig.ts leaves against a
\* server with the whole fleet: new MultiTenantKnex(...), buildMainORM(),
\* buildTenantORMs().  (Spec reaches it; currentORM is still the
\* constructor's {}.)
Started ==
  /\ hDb = [i \in 1..2 |-> TenantDbName(Fleet[i])]
  /\ destroyed = {}
  /\ tenantConnections = [i \in 1..2 |-> [key |-> Fleet[i], val |-> i]]
  /\ tenantORMs = [s \in Subdomains |->
                     IF s = Fleet[1]
                     THEN [id |-> 2, path |-> TenantModelsPath(layout), conn |-> 1]
                     ELSE [id |-> 3, path |-> TenantModelsPath(layout), conn |-> 2]]
  /\ mainORM = [id |-> 1, path |-> SystemModelsPath(layout), conn |-> SysHandle]
  /\ currentORM = EmptyORM
  /\ classKnex = [c \in Classes |->
                    IF c[1] = TenantModelsPath(layout) THEN 2
                    ELSE IF c[1] = SystemModelsPath(layout) THEN SysHandle
                    ELSE NoHandle]
  /\ nextOrm = 4
  /\ proc = [p \in Procs |-> Idle]

\* The state the same start-up leaves against a server with no tenant:
\* buildTenantORMs() found nothing to connect to or to import.
StartedEmpty ==
  /\ hDb = <<>>
  /\ destroyed = {}
  /\ tenantConnections = <<>>
  /\ tenantORMs = [s \in Subdomains |-> NoORM]
  /\ mainORM = [id |-> 1, path |-> SystemModelsPath(layout), conn |-> SysHandle]
  /\ currentORM = EmptyORM
  /\ classKnex = [c \in Classes |->
                    IF c[1] = SystemModelsPath(layout) THEN SysHandle
                    ELSE NoHandle]
  /\ nextOrm = 2
  /\ proc = [p \in Procs |-> Idle]

\* one call at a time, against a server with no tenant or with a fleet
\* that is behind
InitFair ==
  /\ layout \in Layouts
  /\ conc = 1
  /\ calls = MaxCalls
  /\ EmptyServer \/ LaggingFleet
  /\ Constructed

\* two calls in flight, after the start-up against the whole fleet or
\* against a server with no tenant; the failures are those the calls cause
\* each other (a destroyed handle), none is injected
InitConcurrent ==
  /\ layout \in Layouts
  /\ conc = 2
  /\ calls = MaxConcurrentCalls
  /\ faults = MaxFaults
  /\ \/ FleetServer(TRUE) /\ Started
     \/ EmptyServer /\ StartedEmpty

(* ------------------------------------------------------------------ *)
(* Helpers                                                              *)
(* ------------------------------------------------------------------ *)
\* object[key] on an object kept as a list of key / value entries
Lookup(obj, key) ==
  IF \E i \in 1..Len(obj) : obj[i].key = key
  THEN obj[CHOOSE i \in 1..Len(obj) : obj[i].key = key].val
  ELSE NoHandle

\* object[key] = val: a new key goes last, an old key keeps its place
Store(obj, key, val) ==
  IF \E i \in 1..Len(obj) : obj[i].key = key
  THEN [i \in 1..Len(obj) |->
          IF obj[i].key = key THEN [key |-> key, val |-> val] ELSE obj[i]]
  ELSE Append(obj, [key |-> key, val |-> val])

\* Object.keys(obj), the order of for (const k in obj)
Keys(obj) == [i \in 1..Len(obj) |-> obj[i].key]

\* this.tenantConnections[subdomain]
Conn(subdomain) == Lookup(tenantConnections, subdomain)

\* this.tenantORMs[subdomain]; an id that is no key reads undefined
StoredORM(id) == IF id \in Subdomains THEN tenantORMs[id] ELSE NoORM

\* the registry: what _createTenantConnection reads and writes
Registry == [conns |-> tenantConnections, hdb |-> hDb, gone |-> destroyed]

SetRegistry(reg) ==
  /\ tenantConnections' = reg.conns
  /\ hDb' = reg.hdb
  /\ destroyed' = reg.gone

\* _createTenantConnection without the destroy() of the handle it replaces
createTenantConnectionLeaky(reg, subdomain) ==
  [ conns |-> Store(reg.conns, subdomain, Len(reg.hdb) + 1),
    hdb   |-> Append(reg.hdb, TenantDbName(subdomain)),
    gone  |-> reg.gone ]

\* _createTenantConnection that keeps the handle already registered
createTenantConnectionReuse(reg, subdomain) ==
  IF Lookup(reg.conns, subdomain) # NoHandle THEN reg
  ELSE createTenantConnectionLeaky(reg, subdomain)

\* _createTenantConnection that destroys the system connection with the
\* handle it replaces
createTenantConnectionAll(reg, subdomain) ==
  [ conns |-> Store(reg.conns, subdomain, Len(reg.hdb) + 1),
    hdb   |-> Append(reg.hdb, TenantDbName(subdomain)),
    gone  |-> IF Lookup(reg.conns, subdomain) # NoHandle
              THEN reg.gone \cup {Lookup(reg.conns, subdomain), SysHandle}
              ELSE reg.gone ]

\* _createTenantConnection(subdomain): destroy the handle registered for the
\* subdomain, if any; open a handle on tenant_<subdomain>; register it.
\* knex(config) opens no socket: it cannot fail here.
createTenantConnection(reg, subdomain) ==
  LET old == Lookup(reg.conns, subdomain)
      h   == Len(reg.hdb) + 1
  IN  [ conns |-> Store(reg.conns, subdomain, h),
        hdb   |-> Append(reg.hdb, TenantDbName(subdomain)),
        gone  |-> IF old # NoHandle THEN reg.gone \cup {old} ELSE reg.gone ]

\* tenants.forEach / tenants.map(... _createTenantConnection(tenant.subdomain))
RECURSIVE createAll(_, _)
createAll(reg, tenants) ==
  IF tenants = <<>> THEN reg
  ELSE createAll(createTenantConnection(reg, Head(tenants)), Tail(tenants))

\* modelModule[modelName].knex(connection): objection stores the knex on the
\* class itself, and the class is the module's one export
bindKnex(ck, class, connection) == [ck EXCEPT ![class] = connection]

\* getCurrentORM
getCurrentORM ==
  IF currentORM = NoORM
  THEN [err |-> Error("No current db set", <<>>), orm |-> NoORM]
  ELSE [err |-> NoError, orm |-> currentORM]

\* the models an association wired by associate(orm) leads to from a model
\* of orm: the other values of the same orm object
Associated(orm, class) == OrmModels(orm) \ {class}

\* the handle a query through a model of a binding goes to
BoundTo(class) == classKnex[class]

(* ------------------------------------------------------------------ *)
(* Calls                                                                *)
(* ------------------------------------------------------------------ *)
Set(p, r) == proc' = [proc EXCEPT ![p] = r]

\* the environment starts a call in the first free slot
CanCall(p) ==
  /\ p <= conc
  /\ proc[p] = Idle
  /\ \A q \in Procs : q < p => proc[q] # Idle
  /\ calls > 0

\* _importModels(connection, modelsPath) up to its await: a new orm
\* object, and one pending import() per model file
importModels(r, connection, path) ==
  [r EXCEPT !.pc = "import",
            !.orm = [id |-> nextOrm, path |-> path, conn |-> connection],
            !.todo = getModelFiles(path)]

\* _importModels: one import() resolves; the class is put under its name
\* in orm and bound to the connection
ImportModel ==
  \E p \in Procs :
    /\ proc[p].pc = "import"
    /\ \E f \in proc[p].todo :
         /\ classKnex' = bindKnex(classKnex, Class(proc[p].orm.path, f),
                                  proc[p].orm.conn)
         /\ Set(p, [proc[p] EXCEPT !.todo = @ \ {f}])
    /\ UNCHANGED <<layout, conc, dbVars, regVars, ormVars, nextOrm, calls, faults>>

\* Promise.all of _importModels has resolved
Imported(p) == proc[p].pc = "import" /\ proc[p].todo = {}

\* a call is over: its slot is free again
Return ==
  \E p \in Procs :
    /\ proc[p].pc = "done"
    /\ Set(p, Idle)
    /\ UNCHANGED <<layout, conc, dbVars, regVars, ormVars, classKnex, nextOrm,
                   calls, faults>>

(* ---- buildMainORM, setCurrentMainConnection ---- *)
BuildMainORM ==
  \E p \in Procs :
    /\ CanCall(p)
    /\ calls' = calls - 1
    /\ nextOrm' = nextOrm + 1
    /\ Set(p, importModels([Idle EXCEPT !.op = "buildMainORM"],
                           SysHandle, SystemModelsPath(layout)))
    /\ UNCHANGED <<layout, conc, dbVars, regVars, ormVars, classKnex, faults>>

BuildMainORMDone ==
  \E p \in Procs :
    /\ proc[p].op = "buildMainORM"
    /\ Imported(p)
    /\ mainORM' = proc[p].orm
    /\ Set(p, [proc[p] EXCEPT !.pc = "done"])
    /\ UNCHANGED <<layout, conc, dbVars, regVars, tenantORMs, currentORM,
                   classKnex, nextOrm, calls, faults>>

SetCurrentMainConnection ==
  \E p \in Procs :
    /\ CanCall(p)
    /\ calls' = calls - 1
    /\ nextOrm' = nextOrm + 1
    /\ Set(p, importModels([Idle EXCEPT !.op = "setCurrentMainConnection",
                                        !.pre = [NoPre EXCEPT !.orm = currentORM]],
                           SysHandle, SystemModelsPath(layout)))
    /\ UNCHANGED <<layout, conc, dbVars, regVars, ormVars, classKnex, faults>>

\* the assignments of buildMainORM in the place of those of
\* setCurrentMainConnection
SetCurrentMainConnectionKeep ==
  \E p \in Procs :
    /\ proc[p].op = "setCurrentMainConnection"
    /\ Imported(p)
    /\ mainORM' = proc[p].orm
    /\ Set(p, [proc[p] EXCEPT !.pc = "done"])
    /\ UNCHANGED <<layout, conc, dbVars, regVars, tenantORMs, currentORM,
                   classKnex, nextOrm, calls, faults>>

\* after the await: this.mainORM = orm; this.currentORM = this.mainORM
SetCurrentMainConnectionDone ==
  \E p \in Procs :
    /\ proc[p].op = "setCurrentMainConnection"
    /\ Imported(p)
    /\ mainORM' = proc[p].orm
    /\ currentORM' = proc[p].orm
    /\ Set(p, [proc[p] EXCEPT !.pc = "done"])
    /\ UNCHANGED <<layout, conc, dbVars, regVars, tenantORMs, classKnex,
                   nextOrm, calls, faults>>

(* ---- setCurrentTenantConnection, tenantMiddleware ---- *)
\* ids a caller or a request header can hand in: the names as typed and the
\* subdomains
TenantIds == Names \cup Subdomains

\* `No tenant with subdomain ${subdomain}`
NoTenant(id) == Error("No tenant with subdomain", id)

\* the guard, were it to look the tenant up in tenantConnections
knownTenantByConnection(orms, id) == Conn(id) # NoHandle

\* the guard of setCurrentTenantConnection and setCurrentORM:
\* this.tenantORMs[subdomain] is truthy
knownTenant(orms, id) == id \in Subdomains /\ orms[id] # NoORM

\* the call in slot q is a createTenant of the subdomain, not over yet
InFlightCreate(q, id) ==
  /\ proc[q].op = "createTenant"
  /\ proc[q].sub = id
  /\ proc[q].pc # "done"

\* what a call about tenant id finds
Found(id) ==
  [ conn   |-> Conn(id),
    orm    |-> StoredORM(id),
    opened |-> Len(hDb),
    had    |-> \E d \in DBs : \E i \in 1..Len(rows[d]) : rows[d][i].subdomain = id,
    db     |-> TenantDbName(id) \in dbExists,
    conns  |-> tenantConnections,
    at     |-> 0,
    co     |-> IF \E q \in Procs : InFlightCreate(q, id)
               THEN proc[CHOOSE q \in Procs : InFlightCreate(q, id)].pre.at
               ELSE 0,
    seeds  |-> seedRuns ]

\* what a call about the whole fleet finds
FoundFleet ==
  [NoPre EXCEPT !.opened = Len(hDb), !.conns = tenantConnections,
                !.seeds = seedRuns]

\* setCurrentTenantConnection(subdomain) from its guard to the await of
\* _importModels: a fresh connection is registered, the import is started
switchTenant(r, reg, subdomain) ==
  importModels([r EXCEPT !.sub = subdomain,
                         !.conn = Lookup(reg.conns, subdomain)],
               Lookup(reg.conns, subdomain), TenantModelsPath(layout))

SetCurrentTenantConnection ==
  \E p \in Procs, id \in TenantIds :
    /\ CanCall(p)
    /\ calls' = calls - 1
    /\ IF ~knownTenant(tenantORMs, id)
       THEN /\ Set(p, [Idle EXCEPT !.op = "setCurrentTenantConnection",
                                   !.pc = "done", !.sub = id,
                                   !.pre = Found(id),
                                   !.err = NoTenant(id)])
            /\ UNCHANGED <<regVars, nextOrm>>
       ELSE LET reg == createTenantConnection(Registry, id)
            IN  /\ SetRegistry(reg)
                /\ nextOrm' = nextOrm + 1
                /\ Set(p, switchTenant(
                            [Idle EXCEPT !.op = "setCurrentTenantConnection",
                                         !.pre = Found(id)],
                            reg, id))
    /\ UNCHANGED <<layout, conc, dbVars, ormVars, classKnex, faults>>

\* after the await: this.tenantORMs[subdomain] = orm; this.currentORM = it
SetCurrentTenantConnectionDone ==
  \E p \in Procs :
    /\ proc[p].op = "setCurrentTenantConnection"
    /\ Imported(p)
    /\ tenantORMs' = [tenantORMs EXCEPT ![proc[p].sub] = proc[p].orm]
    /\ currentORM' = proc[p].orm
    /\ Set(p, [proc[p] EXCEPT !.pc = "done"])
    /\ UNCHANGED <<layout, conc, dbVars, regVars, mainORM, classKnex, nextOrm,
                   calls, faults>>

\* a request's x-tenant-id header: absent (<<>>) or an id
Headers == {<<>>} \cup TenantIds

\* a request's authorization header: absent; of another scheme than
\* Bearer; a Bearer token jwt.verify throws on; a verified token without
\* tenantId; a verified token with the tenantId of a tenant
Auths ==
  { NoAuth,
    [scheme |-> "Basic",  valid |-> FALSE, tenantId |-> <<>>],
    [scheme |-> "Bearer", valid |-> FALSE, tenantId |-> Fleet[1]],
    [scheme |-> "Bearer", valid |-> TRUE,  tenantId |-> <<>>],
    [scheme |-> "Bearer", valid |-> TRUE,  tenantId |-> Fleet[1]] }

\* the requests that reach a tenantMiddleware: the x-tenant-id variant
\* reads the header only, the JWT variant the token and the header
TenantRequests ==
  { [mw |-> "header", auth |-> NoAuth, has |-> h # <<>>, hdr |-> h] :
      h \in Headers }
    \cup { [mw |-> "jwt", auth |-> a, has |-> h # <<>>, hdr |-> h] :
             a \in Auths, h \in {<<>>, Fleet[2]} }
    \cup { [mw |-> "jwt", auth |-> a, has |-> TRUE, hdr |-> <<>>] :
             a \in { b \in Auths : b.tenantId # <<>> } }

\* while two calls are kept in flight the requests are those of the
\* x-tenant-id variant that name a tenant
ConcurrentTenantRequests ==
  { [mw |-> "header", auth |-> NoAuth, has |-> TRUE, hdr |-> h] :
      h \in Subdomains }

\* the JWT variant returns 401 from the catch around jwt.verify
invalidToken(req) ==
  /\ req.mw = "jwt"
  /\ req.auth.scheme = "Bearer"
  /\ ~req.auth.valid

\* a middleware in which the token's tenantId, when there is one, is not
\* overwritten by the header
tenantIdTokenFirst(req) ==
  IF req.mw = "jwt" /\ req.auth.scheme = "Bearer" /\ req.auth.valid
     /\ req.auth.tenantId # <<>>
  THEN req.auth.tenantId
  ELSE req.hdr

\* the 400 sent when no tenantId was determined
missingTenantId(req) ==
  IF req.mw = "jwt"
  THEN "400 Missing X-Tenant-Id header and token tenant ID"
  ELSE "400 Missing X-Tenant-Id header"

\* the tenantId the middleware ends up with (<<>>: none): the header; in
\* the JWT variant the token's tenantId, which the header overwrites
tenantId(req) ==
  IF req.hdr # <<>> THEN req.hdr
  ELSE IF req.mw = "jwt" /\ req.auth.scheme = "Bearer" /\ req.auth.valid
  THEN req.auth.tenantId
  ELSE <<>>

\* a middleware that sends its response and goes on as if it had not
respondThenNext(r, status) ==
  [r EXCEPT !.pc = "handler", !.res = "next", !.out = Append(@, status) \o <<"next">>]

\* return res.status(...).json(...)
respond(r, status) ==
  [r EXCEPT !.pc = "done", !.res = status, !.out = Append(@, status)]

\* tenantMiddleware: 401 on a bad token (JWT variant), 400 without a
\* tenantId, else setCurrentTenantConnection(tenantId), 400 with its
\* message if it throws
TenantMiddleware ==
  \E p \in Procs,
     req \in (IF conc = 1 THEN TenantRequests ELSE ConcurrentTenantRequests) :
    /\ CanCall(p)
    /\ calls' = calls - 1
    /\ LET r  == [Idle EXCEPT !.op = "tenantMiddleware", !.req = req]
           id == tenantId(req)
       IN  IF invalidToken(req)
           THEN /\ Set(p, respond(r, "401 Invalid token"))
                /\ UNCHANGED <<regVars, nextOrm>>
           ELSE IF id = <<>>
           THEN /\ Set(p, respond(r, missingTenantId(req)))
                /\ UNCHANGED <<regVars, nextOrm>>
           ELSE IF ~knownTenant(tenantORMs, id)
           THEN /\ Set(p, respond([r EXCEPT !.sub = id, !.err = NoTenant(id)],
                                  "400"))
                /\ UNCHANGED <<regVars, nextOrm>>
           ELSE LET reg == createTenantConnection(Registry, id)
                IN  /\ SetRegistry(reg)
                    /\ nextOrm' = nextOrm + 1
                    /\ Set(p, switchTenant([r EXCEPT !.pre = Found(id)],
                                           reg, id))
    /\ UNCHANGED <<layout, conc, dbVars, ormVars, classKnex, faults>>

\* setCurrentTenantConnection returns into the middleware, which calls
\* next(): the route's handler starts
TenantMiddlewareNext ==
  \E p \in Procs :
    /\ proc[p].op = "tenantMiddleware"
    /\ Imported(p)
    /\ tenantORMs' = [tenantORMs EXCEPT ![proc[p].sub] = proc[p].orm]
    /\ currentORM' = proc[p].orm
    /\ Set(p, [proc[p] EXCEPT !.pc = "handler", !.res = "next",
                              !.out = Append(@, "next")])
    /\ UNCHANGED <<layout, conc, dbVars, regVars, mainORM, classKnex, nextOrm,
                   calls, faults>>

\* the requests that reach a mainMiddleware: the variant that refuses an
\* x-tenant-id header, and the one that does not look at it
MainRequests ==
  { [mw |-> m, auth |-> NoAuth, has |-> h # <<>>, hdr |-> h] :
      m \in {"main", "main500"}, h \in {<<>>, Fleet[1]} }

\* while two calls are kept in flight: the requests that get through
ConcurrentMainRequests == { r \in MainRequests : r.hdr = <<>> /\ r.mw = "main" }

\* mainMiddleware: 400 on an x-tenant-id header (first variant), else
\* setCurrentMainConnection()
MainMiddleware ==
  \E p \in Procs,
     req \in (IF conc = 1 THEN MainRequests ELSE ConcurrentMainRequests) :
    /\ CanCall(p)
    /\ calls' = calls - 1
    /\ LET r == [Idle EXCEPT !.op = "mainMiddleware", !.req = req,
                             !.pre = [NoPre EXCEPT !.orm = currentORM]]
       IN  IF req.mw = "main" /\ req.hdr # <<>>
           THEN /\ Set(p, respond(r, "400 Non necessary header X-Tenant-Id"))
                /\ UNCHANGED nextOrm
           ELSE /\ Set(p, importModels(r, SysHandle, SystemModelsPath(layout)))
                /\ nextOrm' = nextOrm + 1
    /\ UNCHANGED <<layout, conc, dbVars, regVars, ormVars, classKnex, faults>>

\* setCurrentMainConnection returns into the middleware, which calls
\* next()
MainMiddlewareNext ==
  \E p \in Procs :
    /\ proc[p].op = "mainMiddleware"
    /\ Imported(p)
    /\ mainORM' = proc[p].orm
    /\ currentORM' = proc[p].orm
    /\ Set(p, [proc[p] EXCEPT !.pc = "handler", !.res = "next",
                              !.out = Append(@, "next")])
    /\ UNCHANGED <<layout, conc, dbVars, regVars, tenantORMs, classKnex,
                   nextOrm, calls, faults>>

\* the handler, after an await of its own, reads TenantConfig.db(), which
\* is multi.getCurrentORM()
HandlerRead ==
  \E p \in Procs :
    /\ proc[p].pc = "handler"
    /\ Set(p, [proc[p] EXCEPT !.pc = "done",
                              !.read = getCurrentORM.orm,
                              !.err = getCurrentORM.err])
    /\ UNCHANGED <<layout, conc, dbVars, regVars, ormVars, classKnex, nextOrm,
                   calls, faults>>

(* ---- getDbTenants, buildTenantConnections, buildTenantORMs ---- *)
\* tenant.subdomain of each tenant listed
Subs(tenants) == [i \in 1..Len(tenants) |-> tenants[i].subdomain]

\* getDbTenants: select * from Tenants on the system connection
getDbTenants == rows[SystemDb]

BuildTenantConnections ==
  \E p \in Procs :
    /\ CanCall(p)
    /\ calls' = calls - 1
    /\ Set(p, [Idle EXCEPT !.op = "buildTenantConnections", !.pc = "tenants",
                            !.pre = FoundFleet])
    /\ UNCHANGED <<layout, conc, dbVars, regVars, ormVars, classKnex, nextOrm,
                   faults>>

BuildTenantConnectionsDone ==
  \E p \in Procs :
    /\ proc[p].op = "buildTenantConnections"
    /\ proc[p].pc = "tenants"
    /\ SetRegistry(createAll(Registry, Subs(getDbTenants)))
    /\ Set(p, [proc[p] EXCEPT !.pc = "done", !.ts = Subs(getDbTenants)])
    /\ UNCHANGED <<layout, conc, dbVars, ormVars, classKnex, nextOrm, calls,
                   faults>>

\* buildTenantORMs: the for-in loop over the keys of tenantConnections, at
\* key number k: start the import for that key, or return after the last
ormLoop(r, conns, keys, k) ==
  IF k > Len(keys)
  THEN [r EXCEPT !.pc = "done", !.ts = keys, !.k = k]
  ELSE importModels([r EXCEPT !.ts = keys, !.k = k, !.sub = keys[k],
                              !.conn = Lookup(conns, keys[k])],
                    Lookup(conns, keys[k]), TenantModelsPath(layout))

BuildTenantORMs ==
  \E p \in Procs :
    /\ CanCall(p)
    /\ calls' = calls - 1
    /\ IF Len(tenantConnections) = 0
       THEN /\ Set(p, [Idle EXCEPT !.op = "buildTenantORMs", !.pc = "tenants"])
            /\ UNCHANGED nextOrm
       ELSE /\ Set(p, ormLoop([Idle EXCEPT !.op = "buildTenantORMs"],
                              tenantConnections, Keys(tenantConnections), 1))
            /\ nextOrm' = nextOrm + 1
    /\ UNCHANGED <<layout, conc, dbVars, regVars, ormVars, classKnex, faults>>

\* buildTenantConnections has returned into buildTenantORMs
BuildTenantORMsConnected ==
  \E p \in Procs :
    /\ proc[p].op = "buildTenantORMs"
    /\ proc[p].pc = "tenants"
    /\ LET reg == createAll(Registry, Subs(getDbTenants))
           r   == ormLoop(proc[p], reg.conns, Keys(reg.conns), 1)
       IN  /\ SetRegistry(reg)
           /\ Set(p, r)
           /\ nextOrm' = IF r.pc = "import" THEN nextOrm + 1 ELSE nextOrm
    /\ UNCHANGED <<layout, conc, dbVars, ormVars, classKnex, calls, faults>>

\* this.tenantORMs[subdomain] = (the orm imported); next key
BuildTenantORMsStore ==
  \E p \in Procs :
    /\ proc[p].op = "buildTenantORMs"
    /\ Imported(p)
    /\ tenantORMs' = [tenantORMs EXCEPT ![proc[p].sub] = proc[p].orm]
    /\ LET r == ormLoop([proc[p] EXCEPT !.orm = NoORM], tenantConnections,
                        proc[p].ts, proc[p].k + 1)
       IN  /\ Set(p, r)
           /\ nextOrm' = IF r.pc = "import" THEN nextOrm + 1 ELSE nextOrm
    /\ UNCHANGED <<layout, conc, dbVars, regVars, mainORM, currentORM,
                   classKnex, calls, faults>>

(* ------------------------------------------------------------------ *)
(* The database server and knex's migrator                              *)
(* ------------------------------------------------------------------ *)
Range(q) == { q[i] : i \in 1..Len(q) }

\* the database has a tenants table: the system database is migrated; a
\* tenant database has one once the unit that creates it ran, which only
\* the single layout's shared migrations directory holds
HasTenantsTable(l, led, db) ==
  \/ db = SystemDb
  \/ l = "single" /\ TenantsTableUnit \in Range(led[db])

\* a migrate.list() that does not consult the ledger
pendingMigrationsAll(led, db) == Units

\* connection.migrate.list()[1]: the units not in the ledger, in order
pendingMigrations(led, db) ==
  SelectSeq(Units, LAMBDA u : u \notin Range(led[db]))

\* connection.migrate.up({name}) that succeeds: the unit joins the ledger
\* (knex runs nothing for a name that is already in it)
migrateUp(led, db, u) ==
  IF u \in Range(led[db]) THEN led
  ELSE [led EXCEPT ![db] = Append(@, u)]

\* the environment may make this step fail
MayFail == faults < MaxFaults

(* ---- createTenant ---- *)
TenantClass(l) == Class(SystemModelsPath(l), "tenant.model.ts")

\* createTenant(subdomain) up to the await of the insert.  this.mainORM
\* .Tenant is undefined while mainORM is the constructor's {}: the
\* TypeError is caught and replaced.
CreateTenant ==
  \E p \in Procs, name \in Names :
    /\ CanCall(p)
    /\ calls' = calls - 1
    /\ IF TenantClass(layout) \notin OrmModels(mainORM)
       THEN Set(p, [Idle EXCEPT !.op = "createTenant", !.pc = "done",
                                !.sub = toLowerCase(name),
                                !.err = Error("Something went wrong", <<>>)])
       ELSE Set(p, [Idle EXCEPT !.op = "createTenant", !.pc = "insert",
                                !.sub = toLowerCase(name),
                                !.pre = [Found(toLowerCase(name)) EXCEPT !.at = calls],
                                !.conn = BoundTo(TenantClass(layout))])
    /\ UNCHANGED <<layout, conc, dbVars, regVars, ormVars, classKnex, nextOrm,
                   faults>>

\* an insert that leaves the new row alone in the table
insertTenantOnly(rws, db, subdomain) ==
  [rws EXCEPT ![db] = <<TenantRecord(subdomain)>>]

\* Tenant.query().insert({...}) that succeeds: one more row in the table
insertTenant(rws, db, subdomain) ==
  [rws EXCEPT ![db] = Append(@, TenantRecord(subdomain))]

\* the insert runs on the connection the Tenant class is bound to
CreateTenantInsert ==
  \E p \in Procs :
    /\ proc[p].op = "createTenant"
    /\ proc[p].pc = "insert"
    /\ LET h  == proc[p].conn
           db == HandleDb(h)
       IN  IF ~Usable(h) \/ ~HasTenantsTable(layout, ledger, db)
           THEN /\ Set(p, [proc[p] EXCEPT !.pc = "done",
                                          !.err = Error("Something went wrong", <<>>)])
                /\ UNCHANGED rows
           ELSE IF \E i \in 1..Len(rows[db]) : rows[db][i].name = proc[p].sub
           THEN \* error.code === "23505"
                /\ Set(p, [proc[p] EXCEPT !.pc = "done",
                                          !.err = Error("Subdomain already exists", <<>>)])
                /\ UNCHANGED rows
           ELSE /\ rows' = insertTenant(rows, db, proc[p].sub)
                /\ Set(p, [proc[p] EXCEPT !.pc = "createdb", !.conn = NoHandle,
                                          !.ret = TenantRecord(proc[p].sub)])
    /\ UNCHANGED <<layout, conc, dbExists, ledger, seedRuns, regVars, ormVars,
                   classKnex, nextOrm, calls, faults>>

\* CREATE DATABASE tenant_<subdomain> on the system connection; then
\* _createTenantConnection and the migrate.list() of _initializeMigrations
CreateTenantDatabase ==
  \E p \in Procs :
    /\ proc[p].op = "createTenant"
    /\ proc[p].pc = "createdb"
    /\ \/ /\ TenantDbName(proc[p].sub) \notin dbExists
          /\ dbExists' = dbExists \cup {TenantDbName(proc[p].sub)}
          /\ LET reg == createTenantConnection(Registry, proc[p].sub)
             IN  /\ SetRegistry(reg)
                 /\ Set(p, [proc[p] EXCEPT !.pc = "list",
                                           !.conn = Lookup(reg.conns, proc[p].sub)])
          /\ UNCHANGED faults
       \/ /\ TenantDbName(proc[p].sub) \in dbExists
          /\ Set(p, [proc[p] EXCEPT !.pc = "done", !.ret = Undefined,
                                    !.err = Error("database already exists", <<>>)])
          /\ UNCHANGED <<dbExists, regVars, faults>>
       \/ /\ TenantDbName(proc[p].sub) \notin dbExists
          /\ MayFail
          /\ faults' = faults + 1
          /\ Set(p, [proc[p] EXCEPT !.pc = "done", !.ret = Undefined,
                                    !.err = Error("create database failed", <<>>)])
          /\ UNCHANGED <<dbExists, regVars>>
    /\ UNCHANGED <<layout, conc, ledger, rows, seedRuns, ormVars, classKnex,
                   nextOrm, calls>>

\* the call goes on to _initializeSeeders (readdir and the imports of the
\* seed files)
toSeeders(r) == [r EXCEPT !.pc = "seedinit", !.plan = <<>>]

\* _initializeMigrations: migrate.list() resolves.  No pending unit: null,
\* and the caller skips the run.  Otherwise the function returned is
\* called at once and awaits its first migrate.up.
CreateTenantPlan ==
  \E p \in Procs :
    /\ proc[p].op = "createTenant"
    /\ proc[p].pc = "list"
    /\ LET h    == proc[p].conn
           pend == pendingMigrations(ledger, HandleDb(h))
       IN  IF ~Usable(h)
           THEN Set(p, [proc[p] EXCEPT !.pc = "done", !.ret = Undefined,
                                       !.err = Error("connection", <<>>)])
           ELSE IF pend = <<>>
           THEN Set(p, toSeeders([proc[p] EXCEPT !.led0 = <<ledger[HandleDb(h)]>>,
                                                 !.fns = <<pend>>,
                                                 !.failU = <<0>>]))
           ELSE Set(p, [proc[p] EXCEPT !.pc = "up", !.plan = pend,
                                       !.fns = <<pend>>, !.failU = <<0>>,
                                       !.led0 = <<ledger[HandleDb(h)]>>])
    /\ UNCHANGED <<layout, conc, dbVars, regVars, ormVars, classKnex, nextOrm,
                   calls, faults>>

\* migrationFile.file || migrationFile.name, as characters: the name of
\* unit u
UnitName(u) == <<"unit">> \o [i \in 1..u |-> "i"]

\* what migrate.up({name}) rejects with is what the unit's up threw or the
\* database answered: an error that says nothing of the unit, or one whose
\* text happens to name it
UpErrors(u) ==
  { Error("migration failed", <<>>), Error("migration failed", UnitName(u)) }

\* a loop that catches the failure and goes on with the next unit
upFailedContinue(r, u, e) ==
  IF Tail(r.plan) = <<>>
  THEN toSeeders([r EXCEPT !.unit = u, !.failU = <<u>>])
  ELSE [r EXCEPT !.plan = Tail(@), !.unit = u, !.failU = <<u>>]

\* a unit's up threw error e inside the loop of the function
\* _initializeMigrations returned: the loop is left, nothing catches e on
\* the way, createTenant rejects with e
upFailed(r, u, e) ==
  [r EXCEPT !.pc = "done", !.ret = Undefined, !.unit = u, !.failU = <<u>>,
            !.err = e]

\* one await connection.migrate.up({name}) of the loop over the pending
\* units; a failure leaves the loop and the call
CreateTenantUp ==
  \E p \in Procs :
    /\ proc[p].op = "createTenant"
    /\ proc[p].pc = "up"
    /\ LET h == proc[p].conn
           u == Head(proc[p].plan)
           r == [proc[p] EXCEPT !.ran = Append(@, <<h, "up", u>>)]
       IN  \/ /\ Usable(h)
              /\ ledger' = migrateUp(ledger, HandleDb(h), u)
              /\ Set(p, IF Tail(proc[p].plan) = <<>>
                        THEN toSeeders(r)
                        ELSE [r EXCEPT !.plan = Tail(@)])
              /\ UNCHANGED faults
           \/ /\ Usable(h)
              /\ MayFail
              /\ faults' = faults + 1
              /\ \E e \in UpErrors(u) : Set(p, upFailed(r, u, e))
              /\ UNCHANGED ledger
           \/ /\ ~Usable(h)
              /\ Set(p, [refused(proc[p], h, u) EXCEPT
                           !.pc = "done", !.ret = Undefined, !.unit = u,
                           !.err = Error("connection", <<>>)])
              /\ UNCHANGED <<ledger, faults>>
    /\ UNCHANGED <<layout, conc, dbExists, rows, seedRuns, regVars, ormVars,
                   classKnex, nextOrm, calls>>

\* a seed that is skipped once it has run on the database
runSeedOnce(runs, db, s) ==
  IF runs[db][s] > 0 THEN runs ELSE [runs EXCEPT ![db][s] = @ + 1]

\* seederModule.seed(connection) that succeeds
runSeed(runs, db, s) == [runs EXCEPT ![db][s] = @ + 1]

\* _initializeSeeders has resolved to the function over the seed files;
\* it is called at once.  With no seed file it returns and _importModels
\* starts.
CreateTenantSeeders ==
  \E p \in Procs :
    /\ proc[p].op = "createTenant"
    /\ proc[p].pc = "seedinit"
    /\ IF Seeds = <<>>
       THEN /\ Set(p, importModels(proc[p], proc[p].conn, TenantModelsPath(layout)))
            /\ nextOrm' = nextOrm + 1
       ELSE /\ Set(p, [proc[p] EXCEPT !.pc = "seed", !.plan = Seeds])
            /\ UNCHANGED nextOrm
    /\ UNCHANGED <<layout, conc, dbVars, regVars, ormVars, classKnex, calls,
                   faults>>

\* one await seeder() of the loop over the seeders
CreateTenantSeed ==
  \E p \in Procs :
    /\ proc[p].op = "createTenant"
    /\ proc[p].pc = "seed"
    /\ LET h == proc[p].conn
           u == Head(proc[p].plan)
           r == [proc[p] EXCEPT !.ran = Append(@, <<h, "seed", u>>)]
       IN  \/ /\ Usable(h)
              /\ seedRuns' = runSeed(seedRuns, HandleDb(h), u)
              /\ IF Tail(proc[p].plan) = <<>>
                 THEN /\ Set(p, importModels([r EXCEPT !.plan = <<>>], h,
                                             TenantModelsPath(layout)))
                      /\ nextOrm' = nextOrm + 1
                 ELSE /\ Set(p, [r EXCEPT !.plan = Tail(@)])
                      /\ UNCHANGED nextOrm
              /\ UNCHANGED faults
           \/ /\ Usable(h)
              /\ MayFail
              /\ faults' = faults + 1
              /\ Set(p, [r EXCEPT !.pc = "done", !.ret = Undefined, !.unit = u,
                                  !.err = Error("seed failed", <<>>)])
              /\ UNCHANGED <<seedRuns, nextOrm>>
           \/ /\ ~Usable(h)
              /\ Set(p, [refused(proc[p], h, u) EXCEPT
                           !.pc = "done", !.ret = Undefined, !.unit = u,
                           !.err = Error("connection", <<>>)])
              /\ UNCHANGED <<seedRuns, nextOrm, faults>>
    /\ UNCHANGED <<layout, conc, dbExists, ledger, rows, regVars, ormVars,
                   classKnex, calls>>

\* this.tenantORMs[subdomain] = (the orm imported); return tenant
CreateTenantDone ==
  \E p \in Procs :
    /\ proc[p].op = "createTenant"
    /\ Imported(p)
    /\ tenantORMs' = [tenantORMs EXCEPT ![proc[p].sub] = proc[p].orm]
    /\ Set(p, [proc[p] EXCEPT !.pc = "done"])
    /\ UNCHANGED <<layout, conc, dbVars, regVars, mainORM, currentORM,
                   classKnex, nextOrm, calls, faults>>

(* ---- migrateAllTenants ---- *)
\* the handles tenants.map(... _createTenantConnection ...) hands out, one
\* per tenant, in the order of the list
mapped(reg, tenants) ==
  [i \in 1..Len(tenants) |->
     Lookup(createAll(reg, SubSeq(tenants, 1, i)).conns, tenants[i])]

MigrateAllTenants ==
  \E p \in Procs :
    /\ CanCall(p)
    /\ calls' = calls - 1
    /\ Set(p, [Idle EXCEPT !.op = "migrateAllTenants", !.pc = "m_tenants",
                            !.pre = FoundFleet])
    /\ UNCHANGED <<layout, conc, dbVars, regVars, ormVars, classKnex, nextOrm,
                   faults>>

\* getDbTenants resolves; tenants.map runs every callback to its first
\* await: all the connections are made, all the migrate.list() started
MigrateAllConnect ==
  \E p \in Procs :
    /\ proc[p].pc = "m_tenants"
    /\ LET ts == Subs(getDbTenants)
       IN  /\ SetRegistry(createAll(Registry, ts))
           /\ Set(p, [proc[p] EXCEPT !.pc = "m_plans", !.ts = ts,
                                     !.conns = mapped(Registry, ts),
                                     !.fns = [i \in 1..Len(ts) |-> <<>>],
                                     !.led0 = [i \in 1..Len(ts) |-> <<>>],
                                     !.failU = [i \in 1..Len(ts) |-> 0],
                                     !.lst = {}])
    /\ UNCHANGED <<layout, conc, dbVars, ormVars, classKnex, nextOrm, calls,
                   faults>>

\* one tenant's migrate.list() resolves: its plan (null when nothing is
\* pending); or it rejects, Promise.all rejects, and the catch of
\* migrateAllTenants rethrows
MigrateAllPlan ==
  \E p \in Procs :
    /\ proc[p].pc = "m_plans"
    /\ \E i \in 1..Len(proc[p].ts) \ proc[p].lst :
         LET h == proc[p].conns[i]
         IN  IF Usable(h)
             THEN Set(p, [proc[p] EXCEPT
                            !.fns[i] = pendingMigrations(ledger, HandleDb(h)),
                            !.led0[i] = ledger[HandleDb(h)],
                            !.lst = @ \cup {i}])
             ELSE Set(p, [proc[p] EXCEPT !.pc = "done", !.k = i,
                                         !.err = Error("connection", proc[p].ts[i])])
    /\ UNCHANGED <<layout, conc, dbVars, regVars, ormVars, classKnex, nextOrm,
                   calls, faults>>

\* the for loop over the functions, from index k on: skip the nulls, call
\* the next function (which awaits its first unit), or leave the loop and
\* return; migrateAllTenants returns into migrate, which goes on with
\* seedsAllTenants
nextFunction(r, k, pc) ==
  IF \E j \in k..Len(r.fns) : r.fns[j] # <<>>
  THEN LET j == CHOOSE j \in k..Len(r.fns) :
                  /\ r.fns[j] # <<>>
                  /\ \A m \in k..(j - 1) : r.fns[m] = <<>>
       IN  [r EXCEPT !.pc = pc, !.k = j, !.plan = r.fns[j]]
  ELSE [r EXCEPT !.pc = IF r.op = "migrate" /\ pc = "m_apply"
                        THEN "s_tenants" ELSE "done",
                 !.k = Len(r.fns) + 1, !.plan = <<>>]

\* a loop that starts as soon as one plan is there
MigrateAllStartEarly ==
  \E p \in Procs :
    /\ proc[p].pc = "m_plans"
    /\ proc[p].lst # {}
    /\ Set(p, nextFunction(proc[p], 1, "m_apply"))
    /\ UNCHANGED <<layout, conc, dbVars, regVars, ormVars, classKnex, nextOrm,
                   calls, faults>>

\* Promise.all has resolved: the loop starts
MigrateAllStart ==
  \E p \in Procs :
    /\ proc[p].pc = "m_plans"
    /\ proc[p].lst = 1..Len(proc[p].ts)
    /\ Set(p, nextFunction(proc[p], 1, "m_apply"))
    /\ UNCHANGED <<layout, conc, dbVars, regVars, ormVars, classKnex, nextOrm,
                   calls, faults>>

\* one await connection.migrate.up of the tenant at index k; an Error is
\* caught and logged, and the loop goes to the next function; there is no
\* timeout on the await
MigrateAllUp ==
  \E p \in Procs :
    /\ proc[p].pc = "m_apply"
    /\ LET k == proc[p].k
           h == proc[p].conns[k]
           u == Head(proc[p].plan)
           r == [proc[p] EXCEPT !.ran = Append(@, <<h, "up", u>>)]
       IN  \/ /\ Usable(h)
              /\ ledger' = migrateUp(ledger, HandleDb(h), u)
              /\ Set(p, IF Tail(proc[p].plan) = <<>>
                        THEN nextFunction(r, k + 1, "m_apply")
                        ELSE [r EXCEPT !.plan = Tail(@)])
              /\ UNCHANGED faults
           \/ /\ Usable(h)
              /\ MayFail
              /\ faults' = faults + 1
              /\ Set(p, nextFunction([r EXCEPT !.bad = @ \cup {proc[p].ts[k]},
                                               !.failU[k] = u],
                                     k + 1, "m_apply"))
              /\ UNCHANGED ledger
           \/ \* the unit's up never settles: the await never resumes
              /\ Usable(h)
              /\ MayFail
              /\ faults' = faults + 1
              /\ Set(p, [r EXCEPT !.pc = "m_hung"])
              /\ UNCHANGED ledger
           \/ /\ ~Usable(h)
              /\ Set(p, nextFunction([refused(proc[p], h, u) EXCEPT
                                        !.bad = @ \cup {proc[p].ts[k]}],
                                     k + 1, "m_apply"))
              /\ UNCHANGED <<ledger, faults>>
    /\ UNCHANGED <<layout, conc, dbExists, rows, seedRuns, regVars, ormVars,
                   classKnex, nextOrm, calls>>

(* ---- seedsAllTenants ---- *)
SeedsAllTenants ==
  \E p \in Procs :
    /\ CanCall(p)
    /\ calls' = calls - 1
    /\ Set(p, [Idle EXCEPT !.op = "seedsAllTenants", !.pc = "s_tenants",
                            !.pre = FoundFleet])
    /\ UNCHANGED <<layout, conc, dbVars, regVars, ormVars, classKnex, nextOrm,
                   faults>>

\* getDbTenants resolves; all the connections are made, every
\* _initializeSeeders is at its readdir
SeedsAllConnect ==
  \E p \in Procs :
    /\ proc[p].pc = "s_tenants"
    /\ LET ts == Subs(getDbTenants)
       IN  /\ SetRegistry(createAll(Registry, ts))
           /\ Set(p, [proc[p] EXCEPT !.pc = "s_init", !.ts = ts,
                                     !.conns = mapped(Registry, ts),
                                     !.fns = [i \in 1..Len(ts) |-> Seeds],
                                     !.led0 = <<>>, !.failU = <<>>,
                                     !.lst = {}])
    /\ UNCHANGED <<layout, conc, dbVars, ormVars, classKnex, nextOrm, calls,
                   faults>>

\* the seed files are read and imported for every tenant: Promise.all has
\* resolved and the loop starts
SeedsAllStart ==
  \E p \in Procs :
    /\ proc[p].pc = "s_init"
    /\ Set(p, nextFunction(proc[p], 1, "s_apply"))
    /\ UNCHANGED <<layout, conc, dbVars, regVars, ormVars, classKnex, nextOrm,
                   calls, faults>>

\* one await seeder() of the tenant at index k
SeedsAllSeed ==
  \E p \in Procs :
    /\ proc[p].pc = "s_apply"
    /\ LET k == proc[p].k
           h == proc[p].conns[k]
           u == Head(proc[p].plan)
           r == [proc[p] EXCEPT !.ran = Append(@, <<h, "seed", u>>)]
       IN  \/ /\ Usable(h)
              /\ seedRuns' = runSeed(seedRuns, HandleDb(h), u)
              /\ Set(p, IF Tail(proc[p].plan) = <<>>
                        THEN nextFunction(r, k + 1, "s_apply")
                        ELSE [r EXCEPT !.plan = Tail(@)])
              /\ UNCHANGED faults
           \/ /\ Usable(h)
              /\ MayFail
              /\ faults' = faults + 1
              /\ Set(p, nextFunction([r EXCEPT !.bad = @ \cup {proc[p].ts[k]}],
                                     k + 1, "s_apply"))
              /\ UNCHANGED seedRuns
           \/ /\ ~Usable(h)
              /\ Set(p, nextFunction([refused(proc[p], h, u) EXCEPT
                                        !.bad = @ \cup {proc[p].ts[k]}],
                                     k + 1, "s_apply"))
              /\ UNCHANGED <<seedRuns, faults>>
    /\ UNCHANGED <<layout, conc, dbExists, ledger, rows, regVars, ormVars,
                   classKnex, nextOrm, calls>>

(* ---- migrate, setCurrentORM ---- *)
\* migrate(): migrateMainDb (the single-config class only; the split class
\* has the call commented out), then migrateAllTenants, then
\* seedsAllTenants.
Migrate ==
  \E p \in Procs :
    /\ CanCall(p)
    /\ calls' = calls - 1
    /\ Set(p, [Idle EXCEPT !.op = "migrate",
                            !.pc = IF layout = "single" THEN "mm_list"
                                   ELSE "m_tenants",
                            !.pre = FoundFleet])
    /\ UNCHANGED <<layout, conc, dbVars, regVars, ormVars, classKnex, nextOrm,
                   faults>>

\* migrateMainDb: migrate.list() on the system connection resolves.  The
\* system database is migrated before the program runs: nothing is
\* pending, _initializeMigrations returns null, nothing is run.
MigrateMainDb ==
  \E p \in Procs :
    /\ proc[p].pc = "mm_list"
    /\ pendingMigrations(ledger, SystemDb) = <<>>
    /\ Set(p, [proc[p] EXCEPT !.pc = "m_tenants"])
    /\ UNCHANGED <<layout, conc, dbVars, regVars, ormVars, classKnex, nextOrm,
                   calls, faults>>

\* setCurrentORM(subdomain): synchronous; throws for an id with no stored
\* binding, else makes the stored binding the current one
SetCurrentORM ==
  \E p \in Procs, id \in TenantIds :
    /\ CanCall(p)
    /\ calls' = calls - 1
    /\ LET r == [Idle EXCEPT !.op = "setCurrentORM", !.pc = "done",
                             !.sub = id, !.pre = Found(id)]
       IN  IF ~knownTenant(tenantORMs, id)
           THEN /\ Set(p, [r EXCEPT !.err = NoTenant(id)])
                /\ UNCHANGED currentORM
           ELSE /\ Set(p, r)
                /\ currentORM' = tenantORMs[id]
    /\ UNCHANGED <<layout, conc, dbVars, regVars, tenantORMs, mainORM,
                   classKnex, nextOrm, faults>>

(* ------------------------------------------------------------------ *)
(* Specifications                                                       *)
(* ------------------------------------------------------------------ *)
Next ==
  \/ BuildMainORM \/ BuildMainORMDone
  \/ SetCurrentMainConnection \/ SetCurrentMainConnectionDone
  \/ SetCurrentTenantConnection \/ SetCurrentTenantConnectionDone
  \/ TenantMiddleware \/ TenantMiddlewareNext \/ HandlerRead
  \/ MainMiddleware \/ MainMiddlewareNext
  \/ BuildTenantConnections \/ BuildTenantConnectionsDone
  \/ BuildTenantORMs \/ BuildTenantORMsConnected \/ BuildTenantORMsStore
  \/ CreateTenant \/ CreateTenantInsert \/ CreateTenantDatabase
  \/ CreateTenantPlan \/ CreateTenantUp \/ CreateTenantSeeders
  \/ CreateTenantSeed \/ CreateTenantDone
  \/ MigrateAllTenants \/ MigrateAllConnect \/ MigrateAllPlan
  \/ MigrateAllStart \/ MigrateAllUp
  \/ SeedsAllTenants \/ SeedsAllConnect \/ SeedsAllStart \/ SeedsAllSeed
  \/ Migrate \/ MigrateMainDb \/ SetCurrentORM
  \/ ImportModel
  \/ Return

\* the calls made one after the other
Spec == Init /\ [][Next]_vars

\* the calls made two at a time
SpecConcurrent == InitConcurrent /\ [][Next]_vars

\* what the event loop does: a call whose await has settled goes on (when
\* calls are made is up to the environment)
Continue ==
  \/ BuildMainORMDone \/ SetCurrentMainConnectionDone
  \/ SetCurrentTenantConnectionDone
  \/ TenantMiddlewareNext \/ HandlerRead \/ MainMiddlewareNext
  \/ BuildTenantConnectionsDone
  \/ BuildTenantORMsConnected \/ BuildTenantORMsStore
  \/ CreateTenantInsert \/ CreateTenantDatabase
  \/ CreateTenantPlan \/ CreateTenantUp \/ CreateTenantSeeders
  \/ CreateTenantSeed \/ CreateTenantDone
  \/ MigrateAllConnect \/ MigrateAllPlan \/ MigrateAllStart \/ MigrateAllUp
  \/ SeedsAllConnect \/ SeedsAllStart \/ SeedsAllSeed
  \/ MigrateMainDb
  \/ ImportModel
  \/ Return

\* the calls made one after the other, each running on as long as it can
SpecFair == InitFair /\ [][Next]_vars /\ WF_vars(Continue)

(* ------------------------------------------------------------------ *)
(* Claims                                                               *)
(* ------------------------------------------------------------------ *)
\* no call is in flight
Quiescent == \A p \in Procs : proc[p] = Idle

\* a request went through tenantMiddleware to its handler, which has read
\* the current ORM
Served(p) ==
  /\ proc[p].op = "tenantMiddleware"
  /\ proc[p].pc = "done"
  /\ proc[p].res = "next"

\* the binding was built for the tenant's database
BuiltFor(orm, subdomain) ==
  /\ orm.conn \in Opened
  /\ HandleDb(orm.conn) = TenantDbName(subdomain)

\* C1: of two requests that run tenantMiddleware at the same time for
\* different tenants, each reads in its handler, from getCurrentORM, the
\* binding of its own tenant and never the binding of the other's.
C1_RequestsIsolated ==
  \A p, q \in Procs :
    ( /\ p # q
      /\ Served(p)
      /\ proc[q].op = "tenantMiddleware"
      /\ proc[q].sub \in Subdomains
      /\ proc[q].sub # proc[p].sub )
    => /\ BuiltFor(proc[p].read, proc[p].sub)
       /\ ~BuiltFor(proc[p].read, proc[q].sub)

\* the bindings the object holds: the system binding and the tenants'
Bindings ==
  (IF mainORM = EmptyORM THEN {} ELSE {mainORM})
    \cup { tenantORMs[t] : t \in { u \in Subdomains : tenantORMs[u] # NoORM } }

\* the models reachable from a binding: its values, and what their
\* associations lead to
Reachable(orm) ==
  OrmModels(orm) \cup UNION { Associated(orm, c) : c \in OrmModels(orm) }

\* C2: once the calls that import models are over, of any two distinct
\* bindings built from the same models directory, every model reachable
\* from the first is bound to the first's connection and not to the
\* second's.
C2_BindingsIsolated ==
  Quiescent =>
    \A b1, b2 \in Bindings :
      (b1.conn # b2.conn /\ b1.path = b2.path)
      => \A c \in Reachable(b1) :
           BoundTo(c) = b1.conn /\ BoundTo(c) # b2.conn

\* C3: the registry holds at most one handle per tenant, the handle of
\* the tenant's own database, and every handle ever opened is either the
\* one registered for its tenant or was destroyed.
C3_NoHandleLeak ==
  /\ \A i, j \in 1..Len(tenantConnections) :
       tenantConnections[i].key = tenantConnections[j].key => i = j
  /\ \A i \in 1..Len(tenantConnections) :
       /\ tenantConnections[i].val \in Opened
       /\ hDb[tenantConnections[i].val] = TenantDbName(tenantConnections[i].key)
  /\ \A h \in Opened :
       \/ h \in destroyed
       \/ \E s \in Subdomains : Conn(s) = h /\ hDb[h] = TenantDbName(s)

\* two calls in flight have each replaced the handle of the same tenant
C3_Witness ==
  /\ \A p \in Procs : proc[p].op \in {"createTenant", "migrateAllTenants",
                                      "seedsAllTenants", "buildTenantConnections",
                                      "setCurrentTenantConnection"}
  /\ \A p \in Procs : proc[p].pc # "done"
  /\ Cardinality({ h \in destroyed : hDb[h] = TenantDbName(Fleet[1]) }) >= 2

\* createTenant returned its tenant
Created(p) ==
  /\ proc[p].op = "createTenant"
  /\ proc[p].pc = "done"
  /\ proc[p].err = NoError

\* setCurrentTenantConnection returned
Switched(p) ==
  /\ proc[p].op = "setCurrentTenantConnection"
  /\ proc[p].pc = "done"
  /\ proc[p].err = NoError

\* every model of the binding sends its queries to the handle
AllBoundTo(orm, h) == \A c \in OrmModels(orm) : BoundTo(c) = h

\* C4: when createTenant(name) has returned, the system database lists
\* the TenantRecord of the subdomain (status active, dbName tenant_<sub>),
\* a handle on tenant_<sub> is registered under the subdomain and a
\* binding is stored under it; and when a setCurrentTenantConnection has
\* then returned, getCurrentORM gives a binding whose models are bound to
\* a handle on tenant_<sub>, not to the system connection.
C4_CreatedTenantReady ==
  /\ \A p \in Procs :
       Created(p) =>
         /\ proc[p].ret = TenantRecord(proc[p].sub)
         /\ \E i \in 1..Len(getDbTenants) :
              getDbTenants[i] = TenantRecord(proc[p].sub)
         /\ Conn(proc[p].sub) \in Opened
         /\ hDb[Conn(proc[p].sub)] = TenantDbName(proc[p].sub)
         /\ knownTenant(tenantORMs, proc[p].sub)
  /\ \A p \in Procs :
       Switched(p) =>
         /\ BuiltFor(getCurrentORM.orm, proc[p].sub)
         /\ AllBoundTo(getCurrentORM.orm, Conn(proc[p].sub))
         /\ Conn(proc[p].sub) # SysHandle

\* C5: when setCurrentTenantConnection(t) has returned for a tenant with
\* a stored binding, nothing else having run meanwhile: the handle
\* registered for t was opened by this call and is not the one registered
\* before, which was destroyed; the binding stored for t is a new object
\* bound to the new handle; and getCurrentORM returns that binding.
C5_SwitchRebinds ==
  \A p \in Procs :
    Switched(p) =>
      LET t == proc[p].sub
          h == Conn(t)
      IN  /\ h \in Opened
          /\ h > proc[p].pre.opened
          /\ h # proc[p].pre.conn
          /\ h \notin destroyed
          /\ proc[p].pre.conn \in destroyed
          /\ tenantORMs[t].id # proc[p].pre.orm.id
          /\ tenantORMs[t].id = nextOrm - 1
          /\ tenantORMs[t].conn = h
          /\ AllBoundTo(tenantORMs[t], h)
          /\ currentORM = tenantORMs[t]
          /\ getCurrentORM = [err |-> NoError, orm |-> tenantORMs[t]]

\* a switch has returned for a tenant whose binding had been stored by an
\* earlier call
C5_Witness ==
  \E p \in Procs :
    /\ Switched(p)
    /\ proc[p].pre.orm # NoORM
    /\ proc[p].pre.conn \in destroyed
    /\ currentORM.conn = Conn(proc[p].sub)

C7_DuplicateRejected ==
  \A p \in Procs :
    ( /\ proc[p].op = "createTenant"
      /\ proc[p].pre.had
      /\ proc[p].pc # "insert" )
    => /\ proc[p].pc = "done"
       /\ proc[p].err = Error("Subdomain already exists", <<>>)

\* the units of a plan before unit u
Before(plan, u) ==
  SubSeq(plan, 1, (CHOOSE i \in 1..Len(plan) : plan[i] = u) - 1)

\* the database plan number i of a call runs on
PlanDb(r, i) ==
  HandleDb(IF r.op = "createTenant" THEN r.conn ELSE r.conns[i])

\* C8: when the function returned by _initializeMigrations has failed at
\* unit uk of its plan u1..un, the ledger of the connection is the ledger
\* the plan was computed on followed by u1..u(k-1): uk and the units after
\* it are not applied, the units before it are not rolled back.
C8_FailedPlanKeepsPrefix ==
  \A p \in Procs :
    \A i \in 1..Len(proc[p].failU) :
      proc[p].failU[i] # 0 =>
        ledger[PlanDb(proc[p], i)]
          = proc[p].led0[i] \o Before(proc[p].fns[i], proc[p].failU[i])

\* the plan A, B, C has failed at B
C8_Witness ==
  \E p \in Procs :
    /\ proc[p].fns = <<Units>>
    /\ proc[p].failU = <<Units[2]>>
    /\ ledger[PlanDb(proc[p], 1)] = <<Units[1]>>

\* the tenants a batch call failed for: those whose failure it caught, and
\* the one whose failure it rethrew
FailedTenants(r) ==
  r.bad \cup (IF r.err # NoError THEN {r.err.arg} ELSE {})

\* C9: when migrateAllTenants (seedsAllTenants) is over, every tenant of
\* the list other than those a failure occurred for, at whatever stage,
\* has no pending migration left (has had every seed run).
C9_FailureDoesNotAbortOthers ==
  \A p \in Procs :
    proc[p].pc = "done" =>
      \A i \in 1..Len(proc[p].ts) :
        proc[p].ts[i] \notin FailedTenants(proc[p]) =>
          /\ proc[p].op = "migrateAllTenants" =>
               pendingMigrations(ledger, TenantDbName(proc[p].ts[i])) = <<>>
          /\ proc[p].op = "seedsAllTenants" =>
               \A s \in 1..Len(Seeds) :
                 <<proc[p].conns[i], "seed", Seeds[s]>> \in Range(proc[p].ran)

\* C10: migrateAllTenants, over a fleet of which some tenants are migrated
\* and some fail, returns a value that reports the outcome per tenant.
C10_ReportReturned ==
  \A p \in Procs :
    ( /\ proc[p].op = "migrateAllTenants"
      /\ proc[p].pc = "done"
      /\ proc[p].err = NoError
      /\ proc[p].bad # {}
      /\ Range(proc[p].ts) \ proc[p].bad # {} )
    => proc[p].ret # Undefined

\* a batch call is over
BatchDone(p) ==
  /\ proc[p].op \in {"migrateAllTenants", "seedsAllTenants"}
  /\ proc[p].pc = "done"

\* C11: migrateAllTenants and seedsAllTenants, once the tenants are listed,
\* never throw to their caller, whatever failed for a tenant during the
\* batch.
C11_BatchDoesNotRaise ==
  \A p \in Procs : BatchDone(p) => proc[p].err = NoError

\* plan number i of migrateAllTenants was computed on a ledger that holds
\* every unit
Migrated(r, i) ==
  /\ r.op = "migrateAllTenants"
  /\ i \in r.lst
  /\ Range(Units) \subseteq Range(r.led0[i])

\* C12: for a connection with no pending unit _initializeMigrations gives
\* no function to run (null, not an error), no up is executed on the
\* connection and its ledger stays what it was; so a second
\* migrateAllTenants leaves the ledger as the first one left it.
C12_MigratedIsNoOp ==
  \A p \in Procs :
    \A i \in 1..Len(proc[p].fns) :
      Migrated(proc[p], i) =>
        /\ proc[p].fns[i] = <<>>
        /\ proc[p].err.arg # proc[p].ts[i]
        /\ \A j \in 1..Len(proc[p].ran) : proc[p].ran[j][1] # proc[p].conns[i]
        /\ ledger[HandleDb(proc[p].conns[i])] = proc[p].led0[i]

\* a migrateAllTenants is over that found nothing pending for the tenant
\* an earlier migrateAllTenants had brought up to date
C12_Witness ==
  \E p \in Procs :
    /\ BatchDone(p)
    /\ \E i \in 1..Len(proc[p].ts) :
         /\ proc[p].ts[i] = Fleet[2]
         /\ Migrated(proc[p], i)
         /\ ledger[TenantDbName(Fleet[2])] = Units

\* C13: when createTenant's migration has failed at unit uk, the error the
\* caller gets carries the name of uk.
C13_ErrorNamesUnit ==
  \A p \in Procs :
    ( /\ proc[p].op = "createTenant"
      /\ proc[p].pc = "done"
      /\ proc[p].failU # <<>>
      /\ proc[p].failU[1] # 0 )
    => proc[p].err.arg = UnitName(proc[p].failU[1])

\* the seed units a call has started on handle h, in the order it started
\* them
RanSeeds(r, h) ==
  LET q == SelectSeq(r.ran, LAMBDA x : x[1] = h /\ x[2] = "seed")
  IN  [j \in 1..Len(q) |-> q[j][3]]

\* the seed function of the call on handle h has been left by a failure;
\* sub is the tenant of h
SeedFailed(r, sub) ==
  IF r.op = "createTenant"
  THEN r.err.msg \in {"seed failed", "connection"} /\ r.pc = "done"
  ELSE sub \in r.bad

\* the seed function of the call on handle h has run to its end
SeedOver(r, i) ==
  IF r.op = "createTenant"
  THEN r.pc \in {"import", "done"} /\ r.err = NoError
  ELSE r.pc = "done" \/ (r.pc = "s_apply" /\ r.k > i)

\* how many seed units the call has run to completion on handle h
SeedsCompleted(r, h, sub) ==
  IF r.op = "createTenant" /\ r.err.msg = "connection"
  THEN Len(RanSeeds(r, h))
  ELSE IF SeedFailed(r, sub) /\ RanSeeds(r, h) # <<>>
  THEN Len(RanSeeds(r, h)) - 1
  ELSE Len(RanSeeds(r, h))

\* the seed function on handle h of tenant sub, number i of the call
SeedsInOrder(r, h, sub, i) ==
  LET q == RanSeeds(r, h)
  IN  /\ Len(q) <= Len(Seeds)
      /\ q = SubSeq(Seeds, 1, Len(q))
      /\ (SeedOver(r, i) /\ ~SeedFailed(r, sub)) => q = Seeds
      /\ \A s \in 1..Len(Seeds) :
           seedRuns[HandleDb(h)][s]
             = r.pre.seeds[HandleDb(h)][s]
                 + (IF s <= SeedsCompleted(r, h, sub) THEN 1 ELSE 0)

\* C14: the function _initializeSeeders returns runs the seed units on its
\* connection one at a time in the order of the directory, all of them at
\* every invocation, whatever ran before (there is no ledger of seeds);
\* when a unit fails, the units after it are not run on that connection
\* and the function rejects (createTenant rejects with the failure, the
\* loop of seedsAllTenants catches it).
C14_SeedsRunInOrder ==
  \A p \in Procs :
    /\ (proc[p].op = "createTenant" /\ proc[p].conn # NoHandle) =>
         /\ SeedsInOrder(proc[p], proc[p].conn, proc[p].sub, 1)
         /\ proc[p].err.msg = "seed failed" =>
              /\ proc[p].pc = "done"
              /\ proc[p].ret = Undefined
    /\ proc[p].op = "seedsAllTenants" =>
         \A i \in 1..Len(proc[p].conns) :
           SeedsInOrder(proc[p], proc[p].conns[i], proc[p].ts[i], i)

\* a seedsAllTenants is over that ran every seed again on a database they
\* had run on, and that stopped at the first seed of another tenant
C14_Witness ==
  \E p \in Procs :
    /\ proc[p].op = "seedsAllTenants"
    /\ proc[p].pc = "done"
    /\ \E i, j \in 1..Len(proc[p].conns) :
         /\ proc[p].ts[i] \notin proc[p].bad
         /\ \A s \in 1..Len(Seeds) :
              /\ proc[p].pre.seeds[HandleDb(proc[p].conns[i])][s] > 0
              /\ seedRuns[HandleDb(proc[p].conns[i])][s] > 1
         /\ proc[p].ts[j] \in proc[p].bad
         /\ RanSeeds(proc[p], proc[p].conns[j]) = <<Seeds[1]>>

\* C15: as long as no binding was built or selected, getCurrentORM throws
\* "No current db set".
C15_NoContextBeforeBinding ==
  ( /\ nextOrm = 1
    /\ mainORM = EmptyORM
    /\ \A s \in Subdomains : tenantORMs[s] = NoORM )
  => getCurrentORM.err = Error("No current db set", <<>>)

\* C16: when buildMainORM, the first call made on the instance, has
\* returned, getCurrentORM gives the binding stored as mainORM, whose
\* models are bound to the system connection.
C16_ContextStartsAsSystem ==
  \A p \in Procs :
    ( /\ proc[p].op = "buildMainORM"
      /\ proc[p].pc = "done"
      /\ conc = 1
      /\ calls = MaxCalls - 1 )
    => /\ getCurrentORM.err = NoError
       /\ getCurrentORM.orm = mainORM
       /\ OrmModels(getCurrentORM.orm) # {}
       /\ AllBoundTo(getCurrentORM.orm, SysHandle)

\* C17: when setCurrentMainConnection has returned, nothing else having
\* run meanwhile, getCurrentORM gives the binding stored as mainORM, a new
\* one, and all its models are bound to the system connection, none to a
\* tenant handle.
C17_MainConnectionSelected ==
  \A p \in Procs :
    ( /\ proc[p].op = "setCurrentMainConnection"
      /\ proc[p].pc = "done" )
    => /\ proc[p].err = NoError
       /\ getCurrentORM = [err |-> NoError, orm |-> mainORM]
       /\ mainORM = proc[p].orm
       /\ mainORM.conn = SysHandle
       /\ OrmModels(mainORM) # {}
       /\ AllBoundTo(mainORM, SysHandle)
       /\ \A c \in OrmModels(mainORM) : BoundTo(c) \notin Opened

\* setCurrentMainConnection has returned on an instance whose context was
\* a tenant's binding
C17_Witness ==
  \E p \in Procs :
    /\ proc[p].op = "setCurrentMainConnection"
    /\ proc[p].pc = "done"
    /\ proc[p].pre.orm.conn \in Opened
    /\ currentORM.conn = SysHandle

\* the request carries nothing a tenant can be told from: no x-tenant-id
\* header (and, for the JWT variant, no verified token with a tenantId),
\* or a Bearer token that does not verify
Unresolved(req) ==
  \/ req.mw = "header" /\ req.hdr = <<>>
  \/ req.mw = "jwt" /\ req.auth.scheme = "Bearer" /\ ~req.auth.valid
  \/ /\ req.mw = "jwt"
     /\ req.hdr = <<>>
     /\ (req.auth.scheme # "Bearer" \/ req.auth.tenantId = <<>>)

\* C18: a request through tenantMiddleware or mainMiddleware that carries
\* no tenant identifier is answered 400 or 401 without
\* setCurrentTenantConnection being called (no handle opened, no import
\* started); next() is called only once the switch has completed, the
\* context being the binding the request built; and a request sends a
\* response or calls next(), once, never both.
C18_MiddlewareEndsOnce ==
  \A p \in Procs :
    proc[p].op \in {"tenantMiddleware", "mainMiddleware"} =>
      /\ (proc[p].op = "tenantMiddleware" /\ Unresolved(proc[p].req)) =>
           /\ proc[p].pc = "done"
           /\ proc[p].out \in {<<missingTenantId(proc[p].req)>>,
                               <<"401 Invalid token">>}
           /\ proc[p].conn = NoHandle
           /\ proc[p].orm = NoORM
           /\ proc[p].pre = NoPre
      /\ "next" \in Range(proc[p].out) =>
           /\ proc[p].orm # NoORM
           /\ proc[p].todo = {}
           /\ proc[p].err = NoError
           /\ currentORM = proc[p].orm
           /\ AllBoundTo(currentORM, proc[p].orm.conn)
           /\ proc[p].op = "tenantMiddleware" =>
                /\ tenantORMs[proc[p].sub] = proc[p].orm
                /\ Conn(proc[p].sub) = proc[p].orm.conn
           /\ proc[p].op = "mainMiddleware" => mainORM = proc[p].orm
      /\ Len(proc[p].out) = (IF proc[p].pc \in {"handler", "done"} THEN 1 ELSE 0)

\* the JWT variant has answered 401 to a request whose token does not
\* verify, though it had an x-tenant-id header
C18_Witness ==
  \E p \in Procs :
    /\ proc[p].op = "tenantMiddleware"
    /\ proc[p].req.mw = "jwt"
    /\ proc[p].req.hdr # <<>>
    /\ ~proc[p].req.auth.valid
    /\ proc[p].out = <<"401 Invalid token">>
    /\ proc[p].pc = "done"

\* the tenant is ready: its record is listed, its database exists, is
\* migrated and seeded, and a binding is stored for it
Ready(sub) ==
  /\ \E i \in 1..Len(getDbTenants) : getDbTenants[i].subdomain = sub
  /\ TenantDbName(sub) \in dbExists
  /\ pendingMigrations(ledger, TenantDbName(sub)) = <<>>
  /\ \A s \in 1..Len(Seeds) : seedRuns[TenantDbName(sub)][s] > 0
  /\ knownTenant(tenantORMs, sub)

\* C19: a createTenant made again for a tenant that has its record but
\* not its database (the first one failed after the insert), with no
\* fault left, does the steps after the insert for that record: when it is
\* over the tenant is ready, and the system database holds one record of
\* it.
C19_RetryCompletes ==
  \A p \in Procs :
    ( /\ proc[p].op = "createTenant"
      /\ proc[p].pc = "done"
      /\ proc[p].pre.had
      /\ ~proc[p].pre.db
      /\ conc = 1
      /\ faults = 0 )
    => /\ Ready(proc[p].sub)
       /\ Cardinality({ i \in 1..Len(getDbTenants) :
                          getDbTenants[i].subdomain = proc[p].sub }) = 1

\* the handles the call opened on a database that does not exist: they
\* never connect
DeadHandles(r) ==
  { h \in Opened : h > r.pre.opened /\ hDb[h] \notin dbExists }

\* C20: when an operation that opens tenant connections (createTenant,
\* migrateAllTenants, seedsAllTenants, buildTenantConnections,
\* setCurrentTenantConnection) has opened one on a database that does not
\* exist, it fails with a connection error and tenantConnections has the
\* entries it had before the operation.
C20_NoEntryForDeadConnection ==
  \A p \in Procs :
    ( /\ proc[p].op \in {"createTenant", "migrateAllTenants", "seedsAllTenants",
                         "buildTenantConnections", "setCurrentTenantConnection"}
      /\ proc[p].pc = "done"
      /\ conc = 1
      /\ DeadHandles(proc[p]) # {} )
    => /\ proc[p].err.msg = "connection"
       /\ tenantConnections = proc[p].pre.conns

\* createTenant has got past its insert: the TenantRecord was inserted
Inserted(r) ==
  /\ r.op = "createTenant"
  /\ r.pc # "insert"
  /\ r.err.msg \notin {"Subdomain already exists", "Something went wrong"}

\* createTenant was ended by the duplicate error of its insert: nothing
\* returned, no plan, no unit, no binding
Rejected(r) ==
  /\ r.op = "createTenant"
  /\ r.pc = "done"
  /\ r.err = Error("Subdomain already exists", <<>>)
  /\ r.ret = Undefined
  /\ r.fns = <<>>
  /\ r.ran = <<>>
  /\ r.orm = NoORM

\* C21: of two createTenant calls whose names lower-case to the same
\* subdomain, which had no record, the second started while the first was
\* in flight: once both are past their insert, one has inserted
\* the TenantRecord and the other was rejected as a duplicate, having
\* created no database, opened no handle and stored no binding.
C21_OneCreateWins ==
  \A p, q \in Procs :
    ( /\ p # q
      /\ proc[p].op = "createTenant"
      /\ proc[q].op = "createTenant"
      /\ proc[p].sub = proc[q].sub
      /\ ~proc[p].pre.had
      /\ proc[q].pre.co = proc[p].pre.at
      /\ proc[p].pc # "insert"
      /\ proc[q].pc # "insert" )
    => \/ Inserted(proc[p]) /\ Rejected(proc[q])
       \/ Inserted(proc[q]) /\ Rejected(proc[p])

\* the units a call has started on handle h, in the order it started them
RanUnits(r, h) ==
  LET q == SelectSeq(r.ran, LAMBDA x : x[1] = h)
  IN  [j \in 1..Len(q) |-> q[j][3]]

\* every plan of the batch call has been computed: the pending units of
\* each tenant as its ledger had them, or the seed units of the directory
AllPlanned(r) ==
  /\ Len(r.fns) = Len(r.ts)
  /\ r.op = "migrateAllTenants" =>
       /\ r.lst = 1..Len(r.ts)
       /\ \A i \in 1..Len(r.ts) :
            r.fns[i] = SelectSeq(Units, LAMBDA u : u \notin Range(r.led0[i]))
  /\ r.op = "seedsAllTenants" => \A i \in 1..Len(r.ts) : r.fns[i] = Seeds

\* unit u, run by the call on database db, has succeeded
Succeeded(r, db, u) ==
  IF r.op = "migrateAllTenants" THEN u \in Range(ledger[db])
  ELSE seedRuns[db][u] > r.pre.seeds[db][u]

\* C22: in one migrateAllTenants or seedsAllTenants no unit is started
\* before the plan of every tenant is computed; the units started for a
\* tenant are the first units of its plan, in the order of the plan; each
\* of them but the last has succeeded; and the unit the call is at is the
\* one that follows them (one unit of a tenant at a time).
C22_PlansThenUnitsInOrder ==
  \A p \in Procs :
    proc[p].op \in {"migrateAllTenants", "seedsAllTenants"} =>
      /\ (proc[p].ran # <<>> \/ proc[p].pc \in {"m_apply", "s_apply"})
           => AllPlanned(proc[p])
      /\ \A i \in 1..Len(proc[p].conns) :
           LET q == RanUnits(proc[p], proc[p].conns[i])
           IN  /\ Len(q) <= Len(proc[p].fns[i])
               /\ q = SubSeq(proc[p].fns[i], 1, Len(q))
               /\ \A j \in 1..(Len(q) - 1) :
                    Succeeded(proc[p], HandleDb(proc[p].conns[i]), q[j])
               /\ (proc[p].pc \in {"m_apply", "s_apply"} /\ proc[p].k = i) =>
                    proc[p].plan
                      = SubSeq(proc[p].fns[i], Len(q) + 1, Len(proc[p].fns[i]))
               /\ (proc[p].pc \in {"m_apply", "s_apply"} /\ proc[p].k < i) =>
                    q = <<>>

\* a migrateAllTenants has applied the two pending units of a tenant, in
\* their order, after it had found the other tenant up to date
C22_Witness ==
  \E p \in Procs :
    /\ proc[p].op = "migrateAllTenants"
    /\ proc[p].pc = "done"
    /\ Len(proc[p].ts) = 2
    /\ \E i, j \in 1..2 :
         /\ proc[p].fns[i] = <<>>
         /\ proc[p].fns[j] = <<Units[2], Units[3]>>
         /\ RanUnits(proc[p], proc[p].conns[j]) = <<Units[2], Units[3]>>
         /\ ledger[HandleDb(proc[p].conns[j])] = Units

\* the binding was built on the handle now registered for the tenant,
\* which was not released
Fresh(orm, sub) ==
  /\ orm.conn = Conn(sub)
  /\ orm.conn \notin destroyed

\* C23: when no call is in flight, the binding stored for a tenant was
\* built on the handle now registered for that tenant, and so was the
\* binding getCurrentORM returns when it is a tenant's: neither is on a
\* handle that was released.
C23_NoStaleBinding ==
  Quiescent =>
    /\ \A t \in Subdomains :
         knownTenant(tenantORMs, t) => Fresh(tenantORMs[t], t)
    /\ \A t \in Subdomains :
         BuiltFor(getCurrentORM.orm, t) => Fresh(getCurrentORM.orm, t)

\* the operations that open, use or replace a tenant's handle
HandleOps ==
  {"createTenant", "migrateAllTenants", "seedsAllTenants",
   "setCurrentTenantConnection"}

\* C24: while createTenant, migrateAllTenants, seedsAllTenants and
\* setCurrentTenantConnection run together, no migration or seed unit is
\* started on a handle that was released: the plan computed on a handle
\* is not applied once another operation has replaced that handle.
C24_UnitsOnLiveHandle ==
  (\A q \in Procs : proc[q].op \in HandleOps) =>
    \A p \in Procs :
      \A j \in 1..Len(proc[p].ran) : proc[p].ran[j][2] # "released"

\* the databases the call has run a seed unit on
SeededBy(r) ==
  { HandleDb(r.ran[j][1]) : j \in { i \in 1..Len(r.ran) : r.ran[i][2] = "seed" } }

\* C25: a createTenant or a migrate has run seed units only on databases
\* with no pending migration unit: a tenant whose migration sequence
\* failed part-way is not seeded.  (The ledger only grows, so a unit that
\* is pending now was pending when the seed ran.)
C25_SeedsAfterMigrations ==
  \A p \in Procs :
    proc[p].op \in {"createTenant", "migrate"} =>
      \A d \in SeededBy(proc[p]) : pendingMigrations(ledger, d) = <<>>

\* the tenant's database was created, migrated and seeded
Provisioned(sub) ==
  /\ TenantDbName(sub) \in dbExists
  /\ pendingMigrations(ledger, TenantDbName(sub)) = <<>>
  /\ \A s \in 1..Len(Seeds) : seedRuns[TenantDbName(sub)][s] > 0

\* C26: a binding is stored under a tenant (which setCurrentORM and
\* setCurrentTenantConnection then accept) only if the tenant's database
\* exists and its migrations and seeds have completed.
C26_BindingOnlyIfProvisioned ==
  \A t \in Subdomains : knownTenant(tenantORMs, t) => Provisioned(t)

\* a unit of migrateAllTenants never completes, and tenant number i of
\* the list, another one, has a plan and no failure
Waiting(p, i) ==
  /\ proc[p].op = "migrateAllTenants"
  /\ proc[p].pc = "m_hung"
  /\ i \in 1..Len(proc[p].ts)
  /\ i # proc[p].k
  /\ proc[p].fns[i] # <<>>
  /\ proc[p].ts[i] \notin proc[p].bad

\* tenant number i of the list has no pending unit left
Applied(p, i) ==
  /\ i \in 1..Len(proc[p].ts)
  /\ pendingMigrations(ledger, TenantDbName(proc[p].ts[i])) = <<>>

\* C27: when a migration unit of one tenant never completes in
\* migrateAllTenants, every other tenant of the list that has a plan, and
\* whose units succeed, eventually has no pending unit left.
C27_HungUnitBlocksOnlyItsTenant ==
  \A p \in Procs : \A i \in 1..Len(Fleet) : Waiting(p, i) ~> Applied(p, i)

\* sequence a is the beginning of sequence b
IsPrefix(a, b) == Len(a) <= Len(b) /\ SubSeq(b, 1, Len(a)) = a

\* the TenantRecord of the subdomain is in a tenants table
Recorded(sub) ==
  \E d \in DBs : \E i \in 1..Len(rows[d]) : rows[d][i] = TenantRecord(sub)

\* C28: once createTenant has inserted its TenantRecord the record stays,
\* whatever fails afterwards; and no step of any operation deletes or
\* changes a row of a tenants table: what getDbTenants returns only grows.
C28_RecordsOnlyGrow ==
  /\ [](\A p \in Procs : Inserted(proc[p]) => Recorded(proc[p].sub))
  /\ [][ /\ \A d \in DBs : IsPrefix(rows[d], rows'[d])
         /\ IsPrefix(getDbTenants, getDbTenants') ]_vars

\* a createTenant has failed at a migration unit, and its record is listed
\* after the records that were there
C28_Witness ==
  \E p \in Procs :
    /\ proc[p].op = "createTenant"
    /\ proc[p].pc = "done"
    /\ proc[p].err.msg = "migration failed"
    /\ Len(getDbTenants) > 1
    /\ getDbTenants[Len(getDbTenants)] = TenantRecord(proc[p].sub)

\* the handles opened on the tenant's database
HandlesOf(sub) == { h \in Opened : hDb[h] = TenantDbName(sub) }

\* a step leaves tenant t2 its registered handle, which it does not
\* release, and its applied-ledger
KeepsHandleAndLedger(t2) ==
  /\ Lookup(tenantConnections', t2) = Lookup(tenantConnections, t2)
  /\ destroyed' \cap HandlesOf(t2) = destroyed \cap HandlesOf(t2)
  /\ ledger'[TenantDbName(t2)] = ledger[TenantDbName(t2)]

\* a step leaves tenant t2 its stored binding: the same object, its models
\* bound to the handle they were bound to
KeepsBinding(t2) ==
  /\ tenantORMs'[t2] = tenantORMs[t2]
  /\ \A c \in OrmModels(tenantORMs[t2]) : classKnex'[c] = classKnex[c]

\* the step is one of a call addressed to one tenant
StepFor(p) ==
  /\ proc'[p] # proc[p]
  /\ proc'[p].op \in {"createTenant", "setCurrentTenantConnection",
                      "setCurrentORM"}

\* C29: every step of createTenant(t1), setCurrentTenantConnection(t1)
\* or setCurrentORM(t1) leaves to every other tenant t2 its registered
\* handle, unreleased, its applied-ledger and its stored binding.
C29_OtherTenantsUntouched ==
  [][ \A p \in Procs :
        StepFor(p) =>
          \A t2 \in Subdomains \ {proc'[p].sub} :
            KeepsHandleAndLedger(t2) /\ KeepsBinding(t2) ]_vars

\* C30: the system connection, opened by the constructor, is never
\* destroyed and stays usable; it is never registered as a tenant's handle
\* nor opened again as one; and the system binding is on it.
C30_SystemConnectionSingleton ==
  /\ SysHandle \notin destroyed
  /\ Usable(SysHandle)
  /\ SysHandle \notin Opened
  /\ \A s \in Subdomains : Conn(s) # SysHandle
  /\ mainORM # EmptyORM => mainORM.conn = SysHandle
  /\ \A p \in Procs :
       proc[p].op \in {"buildMainORM", "setCurrentMainConnection",
                       "mainMiddleware"}
         => proc[p].orm \in {NoORM} \/ proc[p].orm.conn = SysHandle

\* the handles of both tenants have been replaced and destroyed, and a
\* call that lists the tenants on the system connection is over
C30_Witness ==
  /\ \A t \in Subdomains : \E h \in destroyed : hDb[h] = TenantDbName(t)
  /\ \E p \in Procs :
       /\ proc[p].op \in {"migrateAllTenants", "seedsAllTenants", "migrate",
                           "buildTenantConnections"}
       /\ proc[p].pc = "done"
       /\ proc[p].err = NoError
       /\ Len(proc[p].ts) = 2

\* a request that went through the JWT variant of tenantMiddleware
JwtRequest(p) ==
  /\ proc[p].op = "tenantMiddleware"
  /\ proc[p].req.mw = "jwt"

\* the middleware called setCurrentTenantConnection: it answered neither
\* 401 nor the 400 of a missing tenantId
Handed(p) ==
  proc[p].out \notin {<<"401 Invalid token">>,
                      <<missingTenantId(proc[p].req)>>}

\* the request has a Bearer token that verifies and carries a tenantId
TokenNames(req) ==
  /\ req.auth.scheme = "Bearer"
  /\ req.auth.valid
  /\ req.auth.tenantId # <<>>

\* a Bearer token that fails verification is answered 401 and nothing of
\* a switch is started
Answered401(p) ==
  invalidToken(proc[p].req) =>
    /\ proc[p].pc = "done"
    /\ proc[p].out = <<"401 Invalid token">>
    /\ proc[p].sub = <<>>
    /\ proc[p].conn = NoHandle
    /\ proc[p].orm = NoORM
    /\ proc[p].pre = NoPre

\* C31 as stated: in the JWT variant, when the request has an x-tenant-id
\* header and its token (if any) verifies, setCurrentTenantConnection is
\* called with the header's value; it is called with the token's tenantId
\* only when the request has no x-tenant-id header; a token that fails
\* verification is answered 401 with no switch, header or not.
C31_HeaderTakesPrecedence ==
  \A p \in Procs :
    JwtRequest(p) =>
      /\ Answered401(p)
      /\ (proc[p].req.has /\ ~invalidToken(proc[p].req)) =>
           /\ Handed(p)
           /\ proc[p].sub = proc[p].req.hdr
      /\ (Handed(p) /\ proc[p].sub # proc[p].req.hdr) =>
           /\ ~proc[p].req.has
           /\ TokenNames(proc[p].req)
           /\ proc[p].sub = proc[p].req.auth.tenantId

\* C31 amended: the header's value is handed over whenever it is not
\* empty; the token's tenantId is handed over when the header is absent
\* or empty, and only then; without either the answer is 400 and nothing
\* is handed over; a token that fails verification is answered 401 with
\* no switch, header or not.
C31_NonEmptyHeaderTakesPrecedence ==
  \A p \in Procs :
    JwtRequest(p) =>
      /\ Answered401(p)
      /\ ~invalidToken(proc[p].req) =>
           /\ proc[p].req.hdr # <<>> =>
                /\ Handed(p)
                /\ proc[p].sub = proc[p].req.hdr
           /\ (proc[p].req.hdr = <<>> /\ TokenNames(proc[p].req)) =>
                /\ Handed(p)
                /\ proc[p].sub = proc[p].req.auth.tenantId
           /\ (proc[p].req.hdr = <<>> /\ ~TokenNames(proc[p].req)) =>
                /\ ~Handed(p)
                /\ proc[p].pc = "done"
                /\ proc[p].out = <<missingTenantId(proc[p].req)>>
                /\ proc[p].sub = <<>>
                /\ proc[p].conn = NoHandle

\* a request with a verified token naming one tenant and an x-tenant-id
\* header naming another has been switched to the header's tenant, and
\* next() was called
C31_Witness ==
  \E p \in Procs :
    /\ JwtRequest(p)
    /\ TokenNames(proc[p].req)
    /\ proc[p].req.hdr # <<>>
    /\ proc[p].req.hdr # proc[p].req.auth.tenantId
    /\ proc[p].sub = proc[p].req.hdr
    /\ proc[p].res = "next"
    /\ currentORM = proc[p].orm
    /\ hDb[currentORM.conn] = TenantDbName(proc[p].req.hdr)

====
